---- MODULE Spec2Model ----
(***************************************************************************)
(* Collaborative Reasoning Council (collaborative_reasoning.py) and the    *)
(* Output Normalizer (schemas.py).                                         *)
(*                                                                         *)
(* Encodings                                                               *)
(*  - A float is an integer number of thousandths (0.45 is 450). NaN is    *)
(*    the float that is no number and Inf the positive infinity (0 - Inf   *)
(*    the negative one): two reserved integers. Min and Max are Python's   *)
(*    min and max of two arguments, which keep the first argument unless   *)
(*    the second compares below / above it, so that a NaN stays or goes    *)
(*    with the place it is written in.                                     *)
(*  - A raw number found in a payload (a confidence, a score, a latency)   *)
(*    is a record [t, v]: t = "num" (a number, v thousandths, NaN or an    *)
(*    infinity), t = "missing" (absent, None or another falsy non-number), *)
(*    t = "nonnum" (a non-blank string float() rejects with ValueError,    *)
(*    such as "high") or t = "nonnumobj" (a truthy value that is neither a *)
(*    string nor a number, such as ["high"], which float() rejects with    *)
(*    TypeError). t = "fine" is a number with a fourth decimal that is     *)
(*    neither 0 nor 5 (v ten-thousandths): only overall_confidence, the    *)
(*    one number to_dict rounds, takes it. Integers beyond the float range *)
(*    are not encoded.                                                     *)
(*  - An Optional[str] error is a sequence of message parts; <<>> stands   *)
(*    for None and for "", which the code never tells apart: every test of *)
(*    an error is a truth test, and `is None` is applied to normalised     *)
(*    errors only, which are None or non-empty.                            *)
(*  - A raw evidence id is an integer; a negative one also stands for a    *)
(*    value int() rejects with TypeError or ValueError (None, "abc", NaN), *)
(*    which every filter drops like a negative id. InfId stands for a      *)
(*    float infinity, which int() rejects with OverflowError. NonListIds   *)
(*    stands for an evidence_ids value that is a truthy number and no      *)
(*    list.                                                                *)
(*  - A text is "claim" (some text without blanks around it), " claim "    *)
(*    (the same text with blanks around it), "" (absent or empty), " "     *)
(*    (whitespace only) or "None" (the value None, which str() spells      *)
(*    out). "repr" is str() of a map or of another value that is no        *)
(*    string, "map literal" the text of a string that holds a map.         *)
(*  - A row of a list is a map (DictRow: its text, ids and confidence are  *)
(*    what its keys give, its effect the expected_effect of a              *)
(*    recommendation and its views the groq_view, watsonx_view and         *)
(*    local_view of a disagreement; a DictRow with blank text, no ids and  *)
(*    no confidence is a map that has some key), the empty map {}          *)
(*    (EmptyDict), a string that spells a non-empty map in JSON or as a    *)
(*    Python literal (MapStrRow, with what the keys of that map give), any *)
(*    other string (StrRow) or any other value (OtherRow).                 *)
(*  - A payload's `malformed` names the fields whose value is a truthy     *)
(*    number where a list or a map is expected.                            *)
(*  - A latency_ms is a raw number of milliseconds; the council's own      *)
(*    measurements are taken as 0 ms. The risk scores of the inputs, which *)
(*    the consensus fallback copies into counterfactual_impact, are taken  *)
(*    as 0. signal_summary is left out: the normalizer drops it.           *)
(***************************************************************************)
EXTENDS Integers, Sequences, FiniteSets, TLC

\* ------------------------------------------------------------------ bounds
MaxBundle == 2
MaxRecs == 1
MaxGaps == 1
MaxDis == 1
MaxCalls == 3
NormRows == 7
MaxDisScore == 6
MaxStageGaps == 4
MaxStageRecs == 4
MaxTexts == 2
MaxSources == 1

\* --------------------------------------------------------- generic helpers
\* The float NaN and the float infinity.
NaN == 0 - 777777777
Inf == 999999999

\* Python's min(a, b) and max(a, b): a comparison with NaN is false.
Min(a, b) == IF a # NaN /\ b # NaN /\ b < a THEN b ELSE a
Max(a, b) == IF a # NaN /\ b # NaN /\ b > a THEN b ELSE a

\* str.strip()
Strip(text) == CASE text = " " -> "" [] text = " claim " -> "claim" [] OTHER -> text

\* A slice that starts at the second element: s[1:n+1].
TakeFromSecond(s, n) == SubSeq(s, 2, IF Len(s) < n + 1 THEN Len(s) ELSE n + 1)

Take(s, n) == SubSeq(s, 1, Min(n, Len(s)))

RECURSIVE SelectIdx(_, _, _)
SelectIdx(s, keep, i) ==
  IF i > Len(s) THEN <<>>
  ELSE (IF keep[i] THEN <<s[i]>> ELSE <<>>) \o SelectIdx(s, keep, i + 1)

SeqsUpTo(S, n) == UNION {[1..k -> S] : k \in 0..n}

Num(v) == [t |-> "num", v |-> v]
Missing == [t |-> "missing", v |-> 0]
NonNum == [t |-> "nonnum", v |-> 0]
NonNumObj == [t |-> "nonnumobj", v |-> 0]
Fine(w) == [t |-> "fine", v |-> w]

\* The evidence id that is a float infinity.
InfId == 0 - 1000

\* An evidence_ids value that is a truthy number where a list is expected.
NonListIds == <<0 - 2000>>

DictRow(text, ids, conf) ==
  [kind |-> "dict", text |-> text, ids |-> ids, conf |-> conf, effect |-> "",
   views |-> <<"", "", "">>]
\* A recommendation row: action, expected_effect, confidence.
RecRow(action, effect, conf) == [DictRow(action, <<>>, conf) EXCEPT !.effect = effect]
\* A disagreement row: topic and <<groq_view, watsonx_view, local_view>>.
DisRow(topic, views) == [DictRow(topic, <<>>, Missing) EXCEPT !.views = views]
StrRow(text) == [DictRow(text, <<>>, Missing) EXCEPT !.kind = "str"]
MapStrRow(text, ids, conf) == [DictRow(text, ids, conf) EXCEPT !.kind = "mapstr"]
OtherRow == [DictRow("", <<>>, Missing) EXCEPT !.kind = "other"]
EmptyDict == [DictRow("", <<>>, Missing) EXCEPT !.kind = "emptydict"]

\* isinstance(row, dict)
IsDict(row) == row.kind \in {"dict", "emptydict"}

\* isinstance(row, str)
IsStr(row) == row.kind \in {"str", "mapstr"}

InSeq(x, s) == \E i \in 1..Len(s) : s[i] = x

\* ------------------------------------------------------------- schemas.py
\* _coerce_float: float(value), the default on TypeError / ValueError.
CoerceFloat(c, default) == IF c.t = "num" THEN c.v ELSE default

\* _coerce_int lets the OverflowError of int(inf) escape: lines 18-21 catch
\* TypeError and ValueError only.
CoerceIntRaises(c) == c.t = "num" /\ c.v \in {Inf, 0 - Inf}

\* _coerce_int when it returns: int(value) cuts the fraction of a number
\* towards zero; the default on TypeError / ValueError (None, a string
\* that is no integer, NaN).
CoerceInt(c, default) ==
  IF c.t # "num" \/ c.v = NaN THEN default
  ELSE IF c.v >= 0 THEN c.v \div 1000
  ELSE 0 - ((0 - c.v) \div 1000)

\* round(x, 3) of a clamped x given in ten-thousandths, no tie.
Round3(w) == (w + 5) \div 10

\* A clamp that forgets the upper limit.
ClampNoUpper(value, low, high) == Max(low, value)

\* _clamp: max(low, min(high, value)).
Clamp(value, low, high) == Max(low, Min(high, value))

\* _clean_evidence_ids lets the OverflowError of int(inf) escape: lines
\* 33-36 catch TypeError and ValueError only.
CleanEvidenceIdsRaises(values) == InSeq(InfId, values)

\* _clean_evidence_ids when it returns: positive ids, first occurrence
\* only, order kept.
CleanEvidenceIds(values) ==
  SelectIdx(values, [i \in 1..Len(values) |-> values[i] > 0 /\ \A j \in 1..(i - 1) : values[j] # values[i]], 1)

\* str(row.get(key, "")).strip() or "Evidence unavailable"
TextOrDefault(text, default) == IF Strip(text) = "" THEN default ELSE Strip(text)

DictRows(rows) == SelectIdx(rows, [i \in 1..Len(rows) |-> IsDict(rows[i])], 1)

\* EvidenceClaim(...) / StrategyClaim(...) built from one dict row.
NormClaim(row) ==
  [text |-> TextOrDefault(row.text, "Evidence unavailable"),
   evidence_ids |-> CleanEvidenceIds(row.ids),
   confidence |-> Clamp(CoerceFloat(row.conf, 0), 0, 1000)]

\* Recommendation(...) built from one dict row.
NormRecommendation(row) ==
  [action |-> TextOrDefault(row.text, "Evidence unavailable"),
   expected_effect |-> TextOrDefault(row.effect, "Evidence unavailable"),
   confidence |-> Clamp(CoerceFloat(row.conf, 0), 0, 1000)]

\* Disagreement(...) built from one dict row: the views have no default.
NormDisagreement(row) ==
  [topic |-> TextOrDefault(row.text, "Open issue"),
   groq_view |-> Strip(row.views[1]),
   watsonx_view |-> Strip(row.views[2]),
   local_view |-> Strip(row.views[3])]

NormClaims(rows) == [i \in 1..Len(rows) |-> NormClaim(rows[i])]

NormRecommendations(rows) == [i \in 1..Len(rows) |-> NormRecommendation(rows[i])]

NormDisagreements(rows) == [i \in 1..Len(rows) |-> NormDisagreement(rows[i])]

\* ModelBreakdownEntry for one provider key (lines 155-162): raw and
\* errors as they are, latency_ms through _coerce_int.
NormBreakdownEntry(entry) ==
  [raw |-> entry.raw, latency_ms |-> CoerceInt(entry.latency_ms, 0), errors |-> entry.errors]

\* A model_breakdown that is absent or has no entry: raw {} ("empty"), no
\* latency, errors None.
EmptyBreakdown ==
  [groq |-> [raw |-> "empty", latency_ms |-> Missing, errors |-> <<>>],
   watsonx |-> [raw |-> "empty", latency_ms |-> Missing, errors |-> <<>>],
   local |-> [raw |-> "empty", latency_ms |-> Missing, errors |-> <<>>]]

\* A counterfactual_impact that is absent, None or {}.
NoImpact == [before_score |-> Missing, after_score |-> Missing, improvement_pct |-> Missing]

\* CounterfactualImpact(...) (lines 168-172): three floats, not clamped.
NormImpact(impact) ==
  [before_score |-> CoerceFloat(impact.before_score, 0),
   after_score |-> CoerceFloat(impact.after_score, 0),
   improvement_pct |-> CoerceFloat(impact.improvement_pct, 0)]

\* overall_confidence: _clamp(_coerce_float(..)) at line 175, then to_dict's
\* round(_clamp(..), 3) at line 98, which changes a fine number only.
NormOverall(c) ==
  IF c.t = "fine" THEN Round3(Clamp(Clamp(c.v, 0, 10000), 0, 10000))
  ELSE Clamp(Clamp(CoerceFloat(c, 0), 0, 1000), 0, 1000)

\* One claim list in the loops at lines 108-129: iterating a truthy
\* number is a TypeError, an infinite evidence id of a map row an
\* OverflowError.
NormClaimListExc(raw, field, rows) ==
  IF field \in raw.malformed THEN "TypeError"
  ELSE IF \E i \in 1..Len(rows) : IsDict(rows[i]) /\ CleanEvidenceIdsRaises(rows[i].ids)
    THEN "OverflowError"
  ELSE ""

\* The exception normalize_council_output lets escape, "" when it returns:
\* the four lists in the order of lines 108-151, then .get on a truthy
\* number where the model_breakdown map is expected (line 157), int() of
\* an infinite latency_ms (line 158), then .get on a truthy number where
\* the counterfactual_impact map is expected (line 169).
NormalizeExc(raw) ==
  IF NormClaimListExc(raw, "failure_drivers", raw.failure_drivers) # ""
    THEN NormClaimListExc(raw, "failure_drivers", raw.failure_drivers)
  ELSE IF NormClaimListExc(raw, "survivor_strategies", raw.survivor_strategies) # ""
    THEN NormClaimListExc(raw, "survivor_strategies", raw.survivor_strategies)
  ELSE IF raw.malformed \cap {"disagreements", "final_recommendations"} # {}
    THEN "TypeError"
  ELSE IF "model_breakdown" \in raw.malformed THEN "AttributeError"
  ELSE IF \E key \in {"groq", "watsonx", "local"} :
            CoerceIntRaises(raw.model_breakdown[key].latency_ms)
    THEN "OverflowError"
  ELSE IF "counterfactual_impact" \in raw.malformed THEN "AttributeError"
  ELSE ""

NormalizeRaises(raw) == NormalizeExc(raw) # ""

\* normalize_council_output(payload).to_dict()
NormalizeCouncilOutput(raw) ==
  [executive_summary |-> TextOrDefault(raw.executive_summary, "Evidence unavailable"),
   failure_drivers |-> Take(NormClaims(DictRows(raw.failure_drivers)), 5),
   survivor_strategies |-> Take(NormClaims(DictRows(raw.survivor_strategies)), 5),
   counterfactual_impact |-> NormImpact(raw.counterfactual_impact),
   disagreements |-> Take(NormDisagreements(DictRows(raw.disagreements)), 6),
   final_recommendations |->
     Take(NormRecommendations(DictRows(raw.final_recommendations)), 5),
   overall_confidence |-> NormOverall(raw.overall_confidence),
   model_breakdown |->
     [groq |-> NormBreakdownEntry(raw.model_breakdown.groq),
      watsonx |-> NormBreakdownEntry(raw.model_breakdown.watsonx),
      local |-> NormBreakdownEntry(raw.model_breakdown.local)]]

\* ------------------------------------------- collaborative_reasoning.py
\* WatsonxReasoningClient defines neither summarize_error nor is_quota_error
\* (watsonx_client.py: the class body holds no such attribute), so the call
\* at _normalize_error line 51 ends in AttributeError.
WatsonxHasSummarizeError == FALSE

\* _normalize_error raises exactly when it reaches line 51.
NormalizeErrorRaises(provider, error) ==
  error # <<>> /\ provider = "watsonx" /\ ~WatsonxHasSummarizeError

\* An error normaliser that reports a missing error as an unknown one, as
\* app.py's _normalize_provider_error does.
NormalizeErrorUnknown(provider, error) ==
  IF error = <<>> THEN <<"Unknown provider error.">> ELSE error

\* _normalize_error: None for None / "" / blank, else the compacted text
\* (compaction keeps a message part as it is).
NormalizeError(provider, error) == IF error = <<>> THEN <<>> ELSE error

\* evidence_ids of run_reasoning_council (line 311) for a bundle built by
\* _build_council_evidence_bundle: the ids 1..n in order.
BundleIds(n) == [i \in 1..n |-> i]

\* The inner loop of _ensure_evidence_ids (lines 80-87).
ValidIds(ids, available) ==
  SelectIdx(ids, [i \in 1..Len(ids) |-> InSeq(ids[i], available) /\ \A j \in 1..(i - 1) : ids[j] # ids[i]], 1)

\* str(row) of a row as the code spells it into a text: a string as it is.
RowText(row) ==
  CASE row.kind = "str" -> row.text [] row.kind = "mapstr" -> "map literal" [] OTHER -> "repr"

\* A string row becomes a dict row with confidence 0.45 (line 76).
AsDictRow(row) == IF IsStr(row) THEN DictRow(RowText(row), <<>>, Num(450)) ELSE row

\* One row of _ensure_evidence_ids (lines 80-95).
EnsureRow(row, available) ==
  LET d == AsDictRow(row)
      ids == ValidIds(d.ids, available)
  IN IF ids = <<>>
       THEN [d EXCEPT !.kind = "dict", !.ids = <<>>,
                      !.conf = Num(Min(CoerceFloat(d.conf, 0), 450))]
       ELSE [d EXCEPT !.ids = ids]

\* The exception one row raises in _ensure_evidence_ids, "" when none:
\* iterating evidence_ids at line 81 when it is a number (TypeError),
\* int(inf) at line 83 (OverflowError is not caught), else float(... or 0.0)
\* at line 92 on an uncited row whose confidence is a string that is no
\* number (ValueError) or another truthy non-number (TypeError).
EnsureRowExc(row, available) ==
  LET d == AsDictRow(row)
  IN IF ~IsDict(d) THEN ""
     ELSE IF d.ids = NonListIds THEN "TypeError"
     ELSE IF InSeq(InfId, d.ids) THEN "OverflowError"
     ELSE IF ValidIds(d.ids, available) # <<>> THEN ""
     ELSE IF d.conf.t = "nonnum" THEN "ValueError"
     ELSE IF d.conf.t = "nonnumobj" THEN "TypeError"
     ELSE ""

EnsureRowRaises(row, available) == EnsureRowExc(row, available) # ""

KeptRows(items) ==
  SelectIdx(items, [i \in 1..Len(items) |-> IsDict(items[i]) \/ IsStr(items[i])], 1)

EnsureRaises(items, available) ==
  \E i \in 1..Len(items) : EnsureRowRaises(items[i], available)

\* The exception of the first row that raises, "" when none does.
EnsureExc(items, available) ==
  IF ~EnsureRaises(items, available) THEN ""
  ELSE LET first == CHOOSE i \in 1..Len(items) :
                      /\ EnsureRowRaises(items[i], available)
                      /\ \A j \in 1..(i - 1) : ~EnsureRowRaises(items[j], available)
       IN EnsureRowExc(items[first], available)

\* _ensure_evidence_ids
EnsureEvidenceIds(items, available) ==
  LET kept == KeptRows(items)
  IN [i \in 1..Len(kept) |-> EnsureRow(kept[i], available)]

\* The float sum of _agreement_confidence and to_dict's round(.., 3). With
\* n claims the exact score is a multiple of 1/n thousandths; it lies half
\* way between two thousandths only when the coverage is j/80 with j odd
\* (fewer than 400 claims), and round() then follows the binary float.
\* Row (j + 1) / 2 holds, for each of the six bonus sums (0, 1 or 2
\* provider bonuses, without and with the local bonus), the penalties
\* 0.05 * d, d = 0..5, at which the float lies above the half: bit d.
ScoreTieRoundsUp ==
  <<
    <<3, 59, 55, 0, 0, 20>>,
    <<7, 59, 55, 0, 0, 4>>,
    <<7, 59, 55, 0, 0, 20>>,
    <<23, 63, 63, 0, 4, 37>>,
    <<23, 63, 63, 0, 4, 53>>,
    <<31, 63, 63, 0, 4, 37>>,
    <<0, 6, 63, 0, 4, 53>>,
    <<0, 39, 63, 0, 37, 45>>,
    <<0, 39, 2, 0, 37, 61>>,
    <<0, 39, 2, 0, 37, 45>>,
    <<2, 55, 63, 0, 37, 61>>,
    <<2, 55, 63, 0, 53, 45>>,
    <<2, 55, 0, 0, 37, 61>>,
    <<35, 63, 63, 4, 61, 47>>,
    <<39, 63, 0, 4, 45, 63>>,
    <<55, 63, 63, 4, 61, 47>>,
    <<55, 63, 0, 4, 45, 63>>,
    <<63, 63, 4, 37, 63, 63>>,
    <<63, 63, 4, 37, 47, 63>>,
    <<63, 63, 4, 37, 63, 63>>,
    <<0, 63, 4, 37, 47, 63>>,
    <<0, 63, 4, 53, 63, 63>>,
    <<0, 63, 4, 37, 47, 63>>,
    <<2, 63, 37, 61, 63, 63>>,
    <<2, 63, 37, 45, 63, 63>>,
    <<35, 63, 53, 61, 63, 20>>,
    <<35, 0, 53, 0, 16, 63>>,
    <<51, 63, 61, 63, 63, 53>>,
    <<51, 4, 61, 0, 20, 63>>,
    <<51, 63, 61, 63, 63, 53>>,
    <<0, 4, 61, 0, 20, 36>>,
    <<0, 4, 61, 0, 4, 52>>,
    <<0, 4, 61, 0, 20, 36>>,
    <<4, 37, 63, 0, 37, 60>>,
    <<4, 37, 63, 16, 53, 44>>,
    <<6, 53, 0, 0, 37, 60>>,
    <<6, 53, 63, 16, 53, 44>>,
    <<39, 61, 0, 4, 45, 62>>,
    <<39, 61, 63, 20, 61, 46>>,
    <<39, 61, 0, 4, 45, 62>>
  >>

Bit(mask, d) == (mask \div (2 ^ d)) % 2

\* round(x, 3) of the float x whose exact value is s / n thousandths.
RoundScore(s, n, cited, providers, local_ok, d) ==
  IF (2 * s) % n = 0 /\ s % n # 0
    THEN (s \div n)
           + Bit(ScoreTieRoundsUp[(((80 * cited) \div n) + 1) \div 2]
                                 [2 * providers + (IF local_ok THEN 1 ELSE 0) + 1],
                 Min(d, 5))
    ELSE (2 * s + n) \div (2 * n)

\* An agreement score whose disagreement penalty is not capped at 0.25.
AgreementConfidenceNoCap(cited, total, groq_ok, watsonx_ok, local_ok, disagreement_count) ==
  LET n == Max(total, 1)
      providers == (IF groq_ok THEN 1 ELSE 0) + (IF watsonx_ok THEN 1 ELSE 0)
      s == (250 + 200 * providers + (IF local_ok THEN 150 ELSE 0)
              - disagreement_count * 50) * n + 200 * cited
  IN IF s <= 50 * n THEN 50
     ELSE IF s >= 950 * n THEN 950
     ELSE RoundScore(s, n, cited, providers, local_ok, disagreement_count)

\* An agreement score that is not clamped to [0.05, 0.95].
AgreementConfidenceNoClamp(cited, total, groq_ok, watsonx_ok, local_ok, disagreement_count) ==
  LET n == Max(total, 1)
      providers == (IF groq_ok THEN 1 ELSE 0) + (IF watsonx_ok THEN 1 ELSE 0)
      s == (250 + 200 * providers + (IF local_ok THEN 150 ELSE 0)
              - Min(250, disagreement_count * 50)) * n + 200 * cited
  IN RoundScore(s, n, cited, providers, local_ok, disagreement_count)

\* _agreement_confidence, then round(.., 3) of CouncilOutput.to_dict, in
\* thousandths; cited / max(total, 1) is the evidence coverage.
AgreementConfidence(cited, total, groq_ok, watsonx_ok, local_ok, disagreement_count) ==
  LET n == Max(total, 1)
      providers == (IF groq_ok THEN 1 ELSE 0) + (IF watsonx_ok THEN 1 ELSE 0)
      s == (250 + 200 * providers + (IF local_ok THEN 150 ELSE 0)
              - Min(250, disagreement_count * 50)) * n + 200 * cited
  IN IF s <= 50 * n THEN 50
     ELSE IF s >= 950 * n THEN 950
     ELSE RoundScore(s, n, cited, providers, local_ok, disagreement_count)

GapRows(n) == [i \in 1..Min(n, 3) |-> StrRow("claim")]

\* A fallback draft that keeps every metric gap and every recommendation.
FallbackDraftUntruncated(inputs) ==
  [source |-> "fallback",
   failure_drivers |-> IF inputs.gaps = 0 THEN <<StrRow("Evidence unavailable")>>
                       ELSE [i \in 1..inputs.gaps |-> StrRow("claim")],
   prevention_measures |-> IF inputs.recs = <<>> THEN <<StrRow("Evidence unavailable")>>
                           ELSE inputs.recs]

\* _fallback_draft: at most three metric-gap strings, else the one
\* placeholder "Evidence unavailable" (line 126);
\* at most the first three recommendations, else one placeholder.
FallbackDraft(inputs) ==
  [source |-> "fallback",
   failure_drivers |-> IF inputs.gaps = 0 THEN <<StrRow("Evidence unavailable")>> ELSE GapRows(inputs.gaps),
   prevention_measures |-> IF Take(inputs.recs, 3) = <<>> THEN <<StrRow("Evidence unavailable")>>
                           ELSE Take(inputs.recs, 3)]

\* The exception of _extract_claim_payload, "" when it returns: for a map
\* and for a string that holds a map, list(...) of evidence_ids at line 215
\* when it is a number (TypeError), int(inf) at line 217 (lines 216-219
\* catch TypeError and ValueError only).
ExtractClaimPayloadExc(row) ==
  IF row.kind \notin {"dict", "mapstr"} THEN ""
  ELSE IF row.ids = NonListIds THEN "TypeError"
  ELSE IF InSeq(InfId, row.ids) THEN "OverflowError"
  ELSE ""

ExtractClaimPayloadRaises(row) == ExtractClaimPayloadExc(row) # ""

\* _extract_claim_payload when it returns: (text, conf, eids); conf None is
\* Missing. A map, and a string that json.loads or ast.literal_eval turns
\* into a non-empty map (lines 184-194), give the stripped text of a text
\* key, else str(payload), with the confidence float() accepts and the
\* positive distinct ids; any other string is returned stripped (line
\* 196). The empty map fails `if payload:` (line 199) and ends at the last
\* line like a row that is neither a map nor a string.
ExtractClaimPayload(row) ==
  CASE row.kind \in {"dict", "mapstr"} ->
         [text |-> IF Strip(row.text) = "" THEN "repr" ELSE Strip(row.text),
          conf |-> IF row.conf.t = "num" THEN row.conf ELSE Missing,
          eids |-> CleanEvidenceIds(row.ids)]
    [] row.kind = "str" -> [text |-> Strip(row.text), conf |-> Missing, eids |-> <<>>]
    [] OTHER -> [text |-> "Evidence unavailable", conf |-> Missing, eids |-> <<>>]

\* One pass of the loops at lines 232-245 and 248-261.
FallbackClaims(rows, default_ids, cited_conf, uncited_conf, high) ==
  LET first == Take(rows, 3)
      ex == [i \in 1..Len(first) |-> ExtractClaimPayload(first[i])]
      kept == SelectIdx(ex, [i \in 1..Len(ex) |-> ex[i].text # ""], 1)
  IN [i \in 1..Len(kept) |->
        DictRow(kept[i].text,
                IF kept[i].eids # <<>> THEN kept[i].eids ELSE default_ids,
                Num(Clamp(IF kept[i].conf.t = "num" THEN kept[i].conf.v
                          ELSE IF kept[i].eids # <<>> THEN cited_conf ELSE uncited_conf,
                          300, high)))]

Breakdown(groq_raw, groq_error, watsonx_raw, watsonx_error, local_raw, local_error) ==
  [groq |-> [raw |-> groq_raw.source, latency_ms |-> Num(0), errors |-> groq_error],
   watsonx |-> [raw |-> watsonx_raw, latency_ms |-> Num(0), errors |-> watsonx_error],
   local |-> [raw |-> local_raw, latency_ms |-> Num(0), errors |-> local_error]]

\* _build_consensus_fallback raises when one of the rows it reads does: the
\* first three draft drivers, then the first three recommendations.
BuildConsensusFallbackRaises(inputs, groq_raw) ==
  \/ \E i \in 1..Len(Take(groq_raw.failure_drivers, 3)) :
       ExtractClaimPayloadRaises(groq_raw.failure_drivers[i])
  \/ \E i \in 1..Len(Take(inputs.recs, 3)) : ExtractClaimPayloadRaises(inputs.recs[i])

\* The exception of the first row that raises, "" when none does.
BuildConsensusFallbackExc(inputs, groq_raw) ==
  LET rows == Take(groq_raw.failure_drivers, 3) \o Take(inputs.recs, 3)
  IN IF ~BuildConsensusFallbackRaises(inputs, groq_raw) THEN ""
     ELSE ExtractClaimPayloadExc(
            rows[CHOOSE i \in 1..Len(rows) :
                   /\ ExtractClaimPayloadRaises(rows[i])
                   /\ \A j \in 1..(i - 1) : ~ExtractClaimPayloadRaises(rows[j])])

\* _build_consensus_fallback
BuildConsensusFallback(inputs, evidence_ids, groq_raw, groq_error, watsonx_raw, watsonx_error, local_raw, local_error) ==
  LET drivers == FallbackClaims(groq_raw.failure_drivers, Take(evidence_ids, 2), 620, 500, 850)
      strategies == FallbackClaims(inputs.recs, Take(evidence_ids, 2), 580, 480, 800)
      supplied == Take(inputs.recs, 3)
      recs == [i \in 1..Len(supplied) |->
                 RecRow(RowText(supplied[i]),
                        "Reduce distress risk versus current baseline.", Num(450))]
  IN [executive_summary |-> "consensus fallback",
      failure_drivers |->
        IF drivers # <<>> THEN drivers
        ELSE [i \in 1..Min(inputs.gaps, 3) |-> DictRow("claim", <<>>, Num(250))],
      survivor_strategies |->
        IF strategies # <<>> THEN strategies
        ELSE <<DictRow("Evidence unavailable", <<>>, Num(200))>>,
      counterfactual_impact |->
        [before_score |-> Num(0), after_score |-> Num(0), improvement_pct |-> Num(0)],
      disagreements |-> <<>>,
      final_recommendations |->
        IF recs # <<>> THEN recs
        ELSE <<RecRow("Evidence unavailable", "Evidence unavailable", Num(200))>>,
      overall_confidence |-> Num(300),
      model_breakdown |-> Breakdown(groq_raw, groq_error, watsonx_raw, watsonx_error,
                                    local_raw, local_error),
      malformed |-> {}]

\* ------------------------------------------------------------ the state
\* Two callers (threads) of run_reasoning_council share the process cache.
Runs == {1, 2}

VARIABLES
  cache,          \* _COUNCIL_CACHE: key -> normalized output
  lock,           \* _CACHE_LOCK: 0 when free, else the run holding it
  pc,             \* position of each run inside run_reasoning_council
  inp,            \* the inputs of the current call
  groq_raw, groq_error,
  watsonx_raw, watsonx_error,
  local_raw, local_error,
  crit_task, local_task,  \* the two pool tasks: state and _with_timing result
  final_raw,      \* <<>> for None, else <<payload>>
  normalized,     \* <<>> or <<normalize_council_output(final_raw).to_dict()>>
  ret,            \* <<>> or <<the map returned to the caller>>
  exc,            \* the exception that left the call, "" when none
  log,            \* the provider operations this call has made, in order
  returned,       \* history: key -> outputs that calls have already returned
  seen,           \* history: returned[key] when this call started
  calls,          \* history: how many calls have been made so far
  norm_in, norm_out, norm_pc,  \* the Output Normalizer used on its own
  bundle_in, bundle_out,       \* _build_council_evidence_bundle used on its own
  sanity_in, sanity_out,       \* _local_sanity_check used on its own
  fo,                          \* one _invoke_with_provider_failover call
  ad,                          \* one council operation of a provider adapter
  iam                          \* ibm_iam: the token cache, the clock and the last call

vars == <<cache, lock, pc, inp, groq_raw, groq_error, watsonx_raw, watsonx_error,
          local_raw, local_error, crit_task, local_task, final_raw, normalized,
          ret, exc, log, returned, seen, calls, norm_in, norm_out, norm_pc,
          bundle_in, bundle_out, sanity_in, sanity_out, fo, ad, iam>>

helperVars == <<bundle_in, bundle_out, sanity_in, sanity_out, fo, ad, iam>>
normVars == <<norm_in, norm_out, norm_pc, helperVars>>
runVars == <<groq_raw, groq_error, watsonx_raw, watsonx_error, local_raw, local_error,
             crit_task, local_task, final_raw, normalized>>

NoInput ==
  [key |-> "", groq |-> FALSE, watsonx |-> FALSE, local |-> FALSE,
   synthesis_provider |-> "watsonx", bundle |-> 0, recs |-> <<>>, gaps |-> 0]
NoDraft == [source |-> "none", failure_drivers |-> <<>>]
NoTask == [state |-> "none", result |-> "empty", error |-> <<>>]

\* What one provider call does inside _with_timing: it returns a result
\* (error None) or raises (result None, error str(exc), possibly "").
ExcMessages == {<<>>, <<"msg">>}

Event(op, by, ok) == [op |-> op, by |-> by, ok |-> ok]

InitCouncil ==
  /\ cache = << >>
  /\ lock = 0
  /\ pc = [r \in Runs |-> "idle"]
  /\ inp = [r \in Runs |-> NoInput]
  /\ groq_raw = [r \in Runs |-> NoDraft]
  /\ groq_error = [r \in Runs |-> <<>>]
  /\ watsonx_raw = [r \in Runs |-> "empty"]
  /\ watsonx_error = [r \in Runs |-> <<>>]
  /\ local_raw = [r \in Runs |-> "empty"]
  /\ local_error = [r \in Runs |-> <<>>]
  /\ crit_task = [r \in Runs |-> NoTask]
  /\ local_task = [r \in Runs |-> NoTask]
  /\ final_raw = [r \in Runs |-> <<>>]
  /\ normalized = [r \in Runs |-> <<>>]
  /\ ret = [r \in Runs |-> <<>>]
  /\ exc = [r \in Runs |-> ""]
  /\ log = [r \in Runs |-> <<>>]
  /\ returned = << >>
  /\ seen = [r \in Runs |-> {}]
  /\ calls = 0

NoFailover ==
  [status |-> "idle", choice |-> "", chain |-> <<>>, idx |-> 0, errors |-> <<>>,
   calls |-> <<>>, result |-> <<>>, provider |-> "", exc |-> ""]

InitBundleIdle == bundle_in = <<>> /\ bundle_out = <<>>

InitSanityIdle == sanity_in = <<>> /\ sanity_out = <<>>

InitFailoverIdle == fo = NoFailover

\* No adapter operation has been called.
NoAdapter ==
  [status |-> "idle", client |-> "", op |-> "", ready |-> FALSE, endpoints |-> 0,
   target |-> 0, attempt |-> 0, repair |-> FALSE, requests |-> <<>>,
   in_iam |-> FALSE, access_token |-> <<>>, parse_error |-> FALSE, endpoint_errors |-> FALSE, result |-> "none", exc |-> ""]

InitAdapterIdle == ad = NoAdapter

\* The threads that call get_iam_token.
IamThreads == {1, 2}

\* One thread outside get_iam_token: its position, its cleaned key, the
\* clock it read at line 32, the token and expiry it took from the response,
\* what it returned, whether it made a request, what it raised.
NoIamCall ==
  [pc |-> "idle", key |-> "", at |-> 0, access_token |-> <<>>, expires_at |-> 0,
   out |-> <<>>, requested |-> FALSE, exc |-> ""]

\* ibm_iam at import: _CACHED_TOKEN = None, _CACHED_EXPIRES_AT = 0.0; the
\* clock; the number of tokens the IAM service has issued.
NoIam ==
  [token |-> <<>>, expires_at |-> 0, now |-> 0, issued |-> 0,
   th |-> [t \in IamThreads |-> NoIamCall]]

InitIamIdle == iam = NoIam

InitNormIdle ==
  /\ norm_in = <<>>
  /\ norm_out = <<>>
  /\ norm_pc = "idle"
  /\ InitBundleIdle
  /\ InitSanityIdle
  /\ InitFailoverIdle
  /\ InitAdapterIdle
  /\ InitIamIdle

Lookup(f, k) == IF k \in DOMAIN f THEN f[k] ELSE {}

\* ------------------------------------------------- run_reasoning_council
\* The caller invokes run_reasoning_council(inputs); _cache_key (line 304).
Call(r, Inputs) ==
  /\ pc[r] = "idle"
  /\ calls < MaxCalls
  /\ calls' = calls + 1
  /\ \E i \in Inputs :
       /\ inp' = [inp EXCEPT ![r] = i]
       /\ seen' = [seen EXCEPT ![r] = Lookup(returned, i.key)]
  /\ pc' = [pc EXCEPT ![r] = "lock_check"]
  /\ UNCHANGED <<cache, lock, runVars, ret, exc, log, returned, normVars>>

\* `with _CACHE_LOCK:` entered at line 305.
AcquireForCheck(r) ==
  /\ pc[r] = "lock_check"
  /\ lock = 0
  /\ lock' = r
  /\ pc' = [pc EXCEPT ![r] = "check"]
  /\ UNCHANGED <<cache, inp, runVars, ret, exc, log, returned, seen, calls, normVars>>

\* A cache check that leaves the with block only on a hit and keeps the
\* lock on a miss.
CacheLookupKeepLock(r) ==
  /\ pc[r] = "check"
  /\ lock = r
  /\ IF inp[r].key \in DOMAIN cache
       THEN /\ ret' = [ret EXCEPT ![r] = <<cache[inp[r].key]>>]
            /\ pc' = [pc EXCEPT ![r] = "done"]
            /\ lock' = 0
            /\ returned' = [k \in DOMAIN returned \cup {inp[r].key} |->
                              IF k = inp[r].key
                                THEN Lookup(returned, k) \cup {cache[inp[r].key]}
                                ELSE returned[k]]
       ELSE /\ pc' = [pc EXCEPT ![r] = "validate"]
            /\ UNCHANGED <<ret, returned, lock>>
  /\ UNCHANGED <<cache, inp, runVars, exc, log, seen, calls, normVars>>

\* Lines 306-307: a hit returns the cached map; the lock is released as the
\* with block is left either way.
CacheLookup(r) ==
  /\ pc[r] = "check"
  /\ lock = r
  /\ lock' = 0
  /\ IF inp[r].key \in DOMAIN cache
       THEN /\ ret' = [ret EXCEPT ![r] = <<cache[inp[r].key]>>]
            /\ pc' = [pc EXCEPT ![r] = "done"]
            /\ returned' = [k \in DOMAIN returned \cup {inp[r].key} |->
                              IF k = inp[r].key
                                THEN Lookup(returned, k) \cup {cache[inp[r].key]}
                                ELSE returned[k]]
       ELSE /\ pc' = [pc EXCEPT ![r] = "validate"]
            /\ UNCHANGED <<ret, returned>>
  /\ UNCHANGED <<cache, inp, runVars, exc, log, seen, calls, normVars>>

\* Lines 318-319: a missing local_model is a ValueError.
Validate(r) ==
  /\ pc[r] = "validate"
  /\ IF inp[r].local
       THEN /\ pc' = [pc EXCEPT ![r] = "draft"]
            /\ exc' = exc
       ELSE /\ pc' = [pc EXCEPT ![r] = "raised"]
            /\ exc' = [exc EXCEPT ![r] = "ValueError"]
  /\ UNCHANGED <<cache, lock, inp, runVars, ret, log, returned, seen, calls, normVars>>

\* Lines 328-335: the draft call, or the deterministic fallback draft.
Draft(r, Drafts, Messages) ==
  /\ pc[r] = "draft"
  /\ IF inp[r].groq
       THEN \/ \E d \in Drafts :
                 /\ groq_raw' = [groq_raw EXCEPT ![r] = d]
                 /\ groq_error' = [groq_error EXCEPT ![r] = NormalizeError("groq", <<>>)]
                 /\ log' = [log EXCEPT ![r] = Append(@, Event("draft", "groq", TRUE))]
            \/ \E m \in Messages :
                 /\ groq_raw' = [groq_raw EXCEPT ![r] = FallbackDraft(inp[r])]
                 /\ groq_error' = [groq_error EXCEPT ![r] = NormalizeError("groq", m)]
                 /\ log' = [log EXCEPT ![r] = Append(@, Event("draft", "groq", FALSE))]
       ELSE /\ groq_raw' = [groq_raw EXCEPT ![r] = FallbackDraft(inp[r])]
            /\ UNCHANGED <<groq_error, log>>
  /\ pc' = [pc EXCEPT ![r] = "submit"]
  /\ UNCHANGED <<cache, lock, inp, watsonx_raw, watsonx_error, local_raw, local_error,
                 crit_task, local_task, final_raw, normalized, ret, exc, returned, seen, calls, normVars>>

\* Lines 337-349: the pool is entered and the two tasks are submitted.
Submit(r) ==
  /\ pc[r] = "submit"
  /\ crit_task' = [crit_task EXCEPT ![r] =
                     IF inp[r].watsonx THEN [NoTask EXCEPT !.state = "running"] ELSE NoTask]
  /\ local_task' = [local_task EXCEPT ![r] = [NoTask EXCEPT !.state = "running"]]
  /\ pc' = [pc EXCEPT ![r] = "await_critique"]
  /\ UNCHANGED <<cache, lock, inp, groq_raw, groq_error, watsonx_raw, watsonx_error,
                 local_raw, local_error, final_raw, normalized, ret, exc, log, returned, seen,
                 calls, normVars>>

\* A worker runs _with_timing(watsonx_client.generate_council_critique, ...).
CritiqueTask(r, Messages) ==
  /\ crit_task[r].state = "running"
  /\ \/ /\ crit_task' = [crit_task EXCEPT ![r] =
                           [state |-> "finished", result |-> "critique", error |-> <<>>]]
        /\ log' = [log EXCEPT ![r] = Append(@, Event("critique", "watsonx", TRUE))]
     \/ \E m \in Messages :
          /\ crit_task' = [crit_task EXCEPT ![r] =
                             [state |-> "finished", result |-> "empty", error |-> m]]
          /\ log' = [log EXCEPT ![r] = Append(@, Event("critique", "watsonx", FALSE))]
  /\ UNCHANGED <<cache, lock, pc, inp, groq_raw, groq_error, watsonx_raw, watsonx_error,
                 local_raw, local_error, local_task, final_raw, normalized, ret, exc, returned, seen,
                 calls, normVars>>

\* A worker runs _with_timing(_local_sanity_check, ...).
LocalTask(r, Messages) ==
  /\ local_task[r].state = "running"
  /\ \/ /\ local_task' = [local_task EXCEPT ![r] =
                            [state |-> "finished", result |-> "sanity", error |-> <<>>]]
        /\ log' = [log EXCEPT ![r] = Append(@, Event("sanity", "local", TRUE))]
     \/ \E m \in Messages :
          /\ local_task' = [local_task EXCEPT ![r] =
                              [state |-> "finished", result |-> "empty", error |-> m]]
          /\ log' = [log EXCEPT ![r] = Append(@, Event("sanity", "local", FALSE))]
  /\ UNCHANGED <<cache, lock, pc, inp, groq_raw, groq_error, watsonx_raw, watsonx_error,
                 local_raw, local_error, crit_task, final_raw, normalized, ret, exc, returned, seen,
                 calls, normVars>>

\* Lines 354-356: critique_future.result(timeout=60) and _normalize_error.
AwaitCritique(r) ==
  /\ pc[r] = "await_critique"
  /\ IF crit_task[r].state = "none"
       THEN /\ pc' = [pc EXCEPT ![r] = "await_local"]
            /\ UNCHANGED <<watsonx_raw, watsonx_error, exc>>
       ELSE /\ crit_task[r].state = "finished"
            /\ watsonx_raw' = [watsonx_raw EXCEPT ![r] = crit_task[r].result]
            /\ IF NormalizeErrorRaises("watsonx", crit_task[r].error)
                 THEN /\ pc' = [pc EXCEPT ![r] = "pool_unwind"]
                      /\ exc' = [exc EXCEPT ![r] = "AttributeError"]
                      /\ UNCHANGED watsonx_error
                 ELSE /\ pc' = [pc EXCEPT ![r] = "await_local"]
                      /\ watsonx_error' = [watsonx_error EXCEPT ![r] =
                                             NormalizeError("watsonx", crit_task[r].error)]
                      /\ exc' = exc
  /\ UNCHANGED <<cache, lock, inp, groq_raw, groq_error, local_raw, local_error,
                 crit_task, local_task, final_raw, normalized, ret, log, returned, seen, calls, normVars>>

\* Line 355: the 60 second wait expires before the task has finished.
CritiqueTimeout(r) ==
  /\ pc[r] = "await_critique"
  /\ crit_task[r].state = "running"
  /\ pc' = [pc EXCEPT ![r] = "pool_unwind"]
  /\ exc' = [exc EXCEPT ![r] = "TimeoutError"]
  /\ UNCHANGED <<cache, lock, inp, runVars, ret, log, returned, seen, calls, normVars>>

\* A wait for the sanity check that goes on without its result.
AwaitLocalNoWait(r) ==
  /\ pc[r] = "await_local"
  /\ local_raw' = [local_raw EXCEPT ![r] = local_task[r].result]
  /\ local_error' = [local_error EXCEPT ![r] = NormalizeError("local", local_task[r].error)]
  /\ pc' = [pc EXCEPT ![r] = "synthesize"]
  /\ UNCHANGED <<cache, lock, inp, groq_raw, groq_error, watsonx_raw, watsonx_error,
                 crit_task, local_task, final_raw, normalized, ret, exc, log, returned, seen,
                 calls, normVars>>

\* Lines 358-359: local_future.result(timeout=60) and _normalize_error.
AwaitLocal(r) ==
  /\ pc[r] = "await_local"
  /\ local_task[r].state = "finished"
  /\ local_raw' = [local_raw EXCEPT ![r] = local_task[r].result]
  /\ local_error' = [local_error EXCEPT ![r] = NormalizeError("local", local_task[r].error)]
  /\ pc' = [pc EXCEPT ![r] = "synthesize"]
  /\ UNCHANGED <<cache, lock, inp, groq_raw, groq_error, watsonx_raw, watsonx_error,
                 crit_task, local_task, final_raw, normalized, ret, exc, log, returned, seen,
                 calls, normVars>>

\* Line 358: the 60 second wait expires before the task has finished.
LocalTimeout(r) ==
  /\ pc[r] = "await_local"
  /\ local_task[r].state = "running"
  /\ pc' = [pc EXCEPT ![r] = "pool_unwind"]
  /\ exc' = [exc EXCEPT ![r] = "TimeoutError"]
  /\ UNCHANGED <<cache, lock, inp, runVars, ret, log, returned, seen, calls, normVars>>

\* An exception leaves the `with ThreadPoolExecutor` block: __exit__ waits
\* for both tasks (shutdown(wait=True)), then the exception leaves the call.
PoolUnwind(r) ==
  /\ pc[r] = "pool_unwind"
  /\ crit_task[r].state # "running"
  /\ local_task[r].state # "running"
  /\ pc' = [pc EXCEPT ![r] = "raised"]
  /\ UNCHANGED <<cache, lock, inp, runVars, ret, exc, log, returned, seen, calls, normVars>>

\* A choice that sends every preference other than 'groq' to watsonx.
SynthesisClientUnknownAsSecondary(i) ==
  IF i.synthesis_provider # "groq" /\ i.watsonx THEN "watsonx"
  ELSE IF i.groq THEN "groq"
  ELSE IF i.watsonx THEN "watsonx"
  ELSE "none"

\* Lines 361-366: the client the first synthesis call goes to.
SynthesisClient(i) ==
  IF i.synthesis_provider = "watsonx" /\ i.watsonx THEN "watsonx"
  ELSE IF i.groq THEN "groq"
  ELSE IF i.watsonx THEN "watsonx"
  ELSE "none"

\* Line 381: the provider name the synthesis error is normalised under.
SynthesisLabel(i) == IF i.synthesis_provider = "watsonx" THEN "watsonx" ELSE "groq"

\* Lines 368-388: the first synthesis call.
Synthesize(r, Payloads, Messages) ==
  /\ pc[r] = "synthesize"
  /\ LET client == SynthesisClient(inp[r])
         label == SynthesisLabel(inp[r])
     IN IF client = "none"
          THEN /\ pc' = [pc EXCEPT ![r] = "failover"]
               /\ UNCHANGED <<final_raw, groq_error, watsonx_error, exc, log>>
          ELSE \/ \E p \in Payloads :
                    /\ final_raw' = [final_raw EXCEPT ![r] = <<p>>]
                    /\ log' = [log EXCEPT ![r] = Append(@, Event("synthesis", client, TRUE))]
                    /\ pc' = [pc EXCEPT ![r] = "failover"]
                    /\ UNCHANGED <<groq_error, watsonx_error, exc>>
               \/ \E m \in Messages :
                    /\ log' = [log EXCEPT ![r] = Append(@, Event("synthesis", client, FALSE))]
                    /\ UNCHANGED final_raw
                    /\ IF NormalizeErrorRaises(label, m)
                         THEN /\ pc' = [pc EXCEPT ![r] = "raised"]
                              /\ exc' = [exc EXCEPT ![r] = "AttributeError"]
                              /\ UNCHANGED <<groq_error, watsonx_error>>
                         ELSE /\ pc' = [pc EXCEPT ![r] = "failover"]
                              /\ exc' = exc
                              /\ LET synthesis_error == NormalizeError(label, m)
                                 IN IF synthesis_error = <<>>
                                      THEN UNCHANGED <<groq_error, watsonx_error>>
                                      ELSE IF inp[r].synthesis_provider = "watsonx"
                                        THEN /\ watsonx_error' =
                                                  [watsonx_error EXCEPT ![r] = synthesis_error]
                                             /\ UNCHANGED groq_error
                                        ELSE /\ groq_error' =
                                                  [groq_error EXCEPT ![r] = synthesis_error]
                                             /\ UNCHANGED watsonx_error
  /\ UNCHANGED <<cache, lock, inp, groq_raw, watsonx_raw, local_raw, local_error,
                 crit_task, local_task, normalized, ret, returned, seen, calls, normVars>>

\* Lines 391-396: when the synthesis is retried on Groq.
FailoverDue(r) ==
  /\ final_raw[r] = <<>>
  /\ inp[r].synthesis_provider = "watsonx"
  /\ inp[r].watsonx
  /\ inp[r].groq

\* Lines 390-421: the retry of the synthesis on Groq.
SynthesisFailover(r, Payloads, Messages) ==
  /\ pc[r] = "failover"
  /\ IF ~FailoverDue(r)
       THEN /\ pc' = [pc EXCEPT ![r] = "fallback"]
            /\ UNCHANGED <<final_raw, groq_error, watsonx_error, exc, log>>
       ELSE \/ \E p \in Payloads :
                 /\ final_raw' = [final_raw EXCEPT ![r] = <<p>>]
                 /\ log' = [log EXCEPT ![r] = Append(@, Event("synthesis", "groq", TRUE))]
                 /\ UNCHANGED groq_error
                 /\ IF watsonx_error[r] # <<>>
                      THEN \* line 414: is_quota_error is not defined either
                           /\ pc' = [pc EXCEPT ![r] = "raised"]
                           /\ exc' = [exc EXCEPT ![r] = "AttributeError"]
                           /\ UNCHANGED watsonx_error
                      ELSE /\ pc' = [pc EXCEPT ![r] = "fallback"]
                           /\ exc' = exc
                           /\ watsonx_error' =
                                [watsonx_error EXCEPT ![r] = <<"failed over to Groq">>]
            \/ \E m \in Messages :
                 /\ log' = [log EXCEPT ![r] = Append(@, Event("synthesis", "groq", FALSE))]
                 /\ pc' = [pc EXCEPT ![r] = "fallback"]
                 /\ LET retry_error == NormalizeError("groq", m)
                    IN groq_error' =
                         [groq_error EXCEPT ![r] =
                            IF retry_error = <<>> THEN @
                            ELSE IF @ = <<>> THEN retry_error
                            ELSE @ \o <<"|">> \o retry_error]
                 /\ UNCHANGED <<final_raw, watsonx_error, exc>>
  /\ UNCHANGED <<cache, lock, inp, groq_raw, watsonx_raw, local_raw, local_error,
                 crit_task, local_task, normalized, ret, returned, seen, calls, normVars>>

\* Lines 423-436: the deterministic consensus when no synthesis is in hand.
ConsensusFallback(r) ==
  /\ pc[r] = "fallback"
  /\ IF final_raw[r] = <<>> /\ BuildConsensusFallbackRaises(inp[r], groq_raw[r])
       THEN /\ pc' = [pc EXCEPT ![r] = "raised"]
            /\ exc' = [exc EXCEPT ![r] = BuildConsensusFallbackExc(inp[r], groq_raw[r])]
            /\ UNCHANGED final_raw
       ELSE /\ final_raw' =
                 [final_raw EXCEPT ![r] =
                    IF @ # <<>> THEN @
                    ELSE <<BuildConsensusFallback(inp[r], BundleIds(inp[r].bundle),
                                                  groq_raw[r], groq_error[r], watsonx_raw[r],
                                                  watsonx_error[r], local_raw[r],
                                                  local_error[r])>>]
            /\ pc' = [pc EXCEPT ![r] = "repair"]
            /\ exc' = exc
  /\ UNCHANGED <<cache, lock, inp, groq_raw, groq_error, watsonx_raw, watsonx_error,
                 local_raw, local_error, crit_task, local_task, normalized, ret, log,
                 returned, seen, calls, normVars>>

\* One of the two statements at lines 438-439: list(...) of a truthy number
\* is a TypeError, then the rows are repaired in order.
RepairExc(f, field, rows, ids) ==
  IF field \in f.malformed THEN "TypeError" ELSE EnsureExc(rows, ids)

\* Lines 438-439: citation repair of failure_drivers, then of
\* survivor_strategies.
CitationRepair(r) ==
  /\ pc[r] = "repair"
  /\ LET f == final_raw[r][1]
         ids == BundleIds(inp[r].bundle)
         drivers_exc == RepairExc(f, "failure_drivers", f.failure_drivers, ids)
         strategies_exc == RepairExc(f, "survivor_strategies", f.survivor_strategies, ids)
     IN IF drivers_exc # "" \/ strategies_exc # ""
          THEN /\ pc' = [pc EXCEPT ![r] = "raised"]
               /\ exc' = [exc EXCEPT ![r] =
                            IF drivers_exc # "" THEN drivers_exc ELSE strategies_exc]
               /\ UNCHANGED final_raw
          ELSE /\ pc' = [pc EXCEPT ![r] = "score"]
               /\ exc' = exc
               /\ final_raw' =
                    [final_raw EXCEPT ![r] =
                       <<[f EXCEPT !.failure_drivers = EnsureEvidenceIds(@, ids),
                                   !.survivor_strategies = EnsureEvidenceIds(@, ids)]>>]
  /\ UNCHANGED <<cache, lock, inp, groq_raw, groq_error, watsonx_raw, watsonx_error,
                 local_raw, local_error, crit_task, local_task, normalized, ret, log,
                 returned, seen, calls, normVars>>

CitedCount(rows) == Len(SelectIdx(rows, [i \in 1..Len(rows) |-> rows[i].ids # <<>>], 1))

\* Lines 441-450: the overall_confidence written into final_raw.
Scored(f, groq_e, wx_raw, wx_e, local_e) ==
  Num(AgreementConfidence(
        CitedCount(f.failure_drivers \o f.survivor_strategies),
        Len(f.failure_drivers \o f.survivor_strategies),
        groq_e = <<>>, wx_e = <<>>, local_e = <<>>,
        Len(f.disagreements)))

\* Lines 441-456: coverage, agreement confidence, model_breakdown.
Score(r) ==
  /\ pc[r] = "score"
  /\ LET f == final_raw[r][1]
     IN IF "disagreements" \in f.malformed
          THEN /\ pc' = [pc EXCEPT ![r] = "raised"]
               /\ exc' = [exc EXCEPT ![r] = "TypeError"]
               /\ UNCHANGED final_raw
          ELSE /\ pc' = [pc EXCEPT ![r] = "normalize"]
               /\ exc' = exc
               /\ final_raw' =
                    [final_raw EXCEPT ![r] =
                       <<[f EXCEPT
                            !.overall_confidence =
                               Scored(f, groq_error[r], watsonx_raw[r], watsonx_error[r],
                                      local_error[r]),
                            !.model_breakdown =
                               Breakdown(groq_raw[r], groq_error[r], watsonx_raw[r],
                                         watsonx_error[r], local_raw[r], local_error[r]),
                            !.malformed = @ \ {"model_breakdown"}]>>]
  /\ UNCHANGED <<cache, lock, inp, groq_raw, groq_error, watsonx_raw, watsonx_error,
                 local_raw, local_error, crit_task, local_task, normalized, ret, log,
                 returned, seen, calls, normVars>>

\* Line 458: normalize_council_output(final_raw).to_dict().
Normalize(r) ==
  /\ pc[r] = "normalize"
  /\ IF NormalizeRaises(final_raw[r][1])
       THEN /\ pc' = [pc EXCEPT ![r] = "raised"]
            /\ exc' = [exc EXCEPT ![r] = NormalizeExc(final_raw[r][1])]
            /\ UNCHANGED normalized
       ELSE /\ pc' = [pc EXCEPT ![r] = "lock_write"]
            /\ exc' = exc
            /\ normalized' = [normalized EXCEPT ![r] = <<NormalizeCouncilOutput(final_raw[r][1])>>]
  /\ UNCHANGED <<cache, lock, inp, groq_raw, groq_error, watsonx_raw, watsonx_error,
                 local_raw, local_error, crit_task, local_task, final_raw, ret, log,
                 returned, seen, calls, normVars>>

\* `with _CACHE_LOCK:` entered at line 459.
AcquireForWrite(r) ==
  /\ pc[r] = "lock_write"
  /\ lock = 0
  /\ lock' = r
  /\ pc' = [pc EXCEPT ![r] = "write"]
  /\ UNCHANGED <<cache, inp, runVars, ret, exc, log, returned, seen, calls, normVars>>

WithEntry(f, k, v) == [x \in DOMAIN f \cup {k} |-> IF x = k THEN v ELSE f[x]]

\* Line 460: _COUNCIL_CACHE[key] = normalized.
CacheStore(c, k, v) == WithEntry(c, k, v)

\* Lines 460-461: the write, the release of the lock and the return.
CacheWrite(r) ==
  /\ pc[r] = "write"
  /\ lock = r
  /\ lock' = 0
  /\ cache' = CacheStore(cache, inp[r].key, normalized[r][1])
  /\ ret' = [ret EXCEPT ![r] = normalized[r]]
  /\ returned' = WithEntry(returned, inp[r].key,
                           Lookup(returned, inp[r].key) \cup {normalized[r][1]})
  /\ pc' = [pc EXCEPT ![r] = "done"]
  /\ UNCHANGED <<inp, runVars, exc, log, seen, calls, normVars>>

\* The call has returned or raised; the caller is free to call again.
Return(r) ==
  /\ pc[r] \in {"done", "raised"}
  /\ pc' = [pc EXCEPT ![r] = "idle"]
  /\ inp' = [inp EXCEPT ![r] = NoInput]
  /\ groq_raw' = [groq_raw EXCEPT ![r] = NoDraft]
  /\ groq_error' = [groq_error EXCEPT ![r] = <<>>]
  /\ watsonx_raw' = [watsonx_raw EXCEPT ![r] = "empty"]
  /\ watsonx_error' = [watsonx_error EXCEPT ![r] = <<>>]
  /\ local_raw' = [local_raw EXCEPT ![r] = "empty"]
  /\ local_error' = [local_error EXCEPT ![r] = <<>>]
  /\ crit_task' = [crit_task EXCEPT ![r] = NoTask]
  /\ local_task' = [local_task EXCEPT ![r] = NoTask]
  /\ final_raw' = [final_raw EXCEPT ![r] = <<>>]
  /\ normalized' = [normalized EXCEPT ![r] = <<>>]
  /\ ret' = [ret EXCEPT ![r] = <<>>]
  /\ exc' = [exc EXCEPT ![r] = ""]
  /\ log' = [log EXCEPT ![r] = <<>>]
  /\ seen' = [seen EXCEPT ![r] = {}]
  /\ UNCHANGED <<cache, lock, returned, calls, normVars>>

\* ------------------------------------------------- inputs and outcomes
Bool == {TRUE, FALSE}

InputsOver(Keys, Prefs, Bundles, RecLists, Gaps) ==
  [key : Keys, groq : Bool, watsonx : Bool, local : Bool, synthesis_provider : Prefs,
   bundle : Bundles, recs : RecLists, gaps : Gaps]

\* Recommendations as generate_strategy_recommendations supplies them: strings.
RecLists == SeqsUpTo({StrRow("claim")}, MaxRecs)

\* An id no bundle of the model holds (the "ID 7" of a hallucinated citation).
HallucinatedId == MaxBundle + 1

StrategyRows == {DictRow("claim", <<1>>, Num(900)), DictRow("", <<HallucinatedId>>, Num(1500))}

DisagreementLists == {[i \in 1..n |-> DictRow("claim", <<>>, Missing)] : n \in 0..MaxDis}

Payload(fd, ss, dis, recs, bad) ==
  [executive_summary |-> "summary", failure_drivers |-> fd, survivor_strategies |-> ss,
   disagreements |-> dis, final_recommendations |-> recs,
   counterfactual_impact |-> NoImpact, overall_confidence |-> Num(990),
   model_breakdown |-> EmptyBreakdown, malformed |-> bad]

OneRec == <<DictRow("claim", <<>>, Num(700))>>

\* The synthesis payloads of the single-call model: short claim lists with
\* every strategy and disagreement list, a claim whose confidence is not a
\* number, and the payloads with a field of the wrong shape.
Payloads ==
  {Payload(fd, ss, dis, <<>>, {}) :
     fd \in SeqsUpTo({DictRow("claim", <<1>>, Num(900))}, 1),
     ss \in SeqsUpTo(StrategyRows, 1), dis \in DisagreementLists}
    \cup {Payload(<<DictRow("claim", <<HallucinatedId>>, c)>>, <<>>, <<>>, OneRec, {}) :
            c \in {NonNum, NonNumObj}}
    \cup {Payload(<<DictRow("claim", ids, Num(900))>>, <<>>, <<>>, OneRec, {}) :
            ids \in {<<1, InfId>>, NonListIds}}
    \cup {Payload(<<>>, <<>>, <<>>, OneRec, {f}) :
            f \in {"failure_drivers", "survivor_strategies", "disagreements",
                   "final_recommendations", "counterfactual_impact"}}

Drafts ==
  {[source |-> "groq", failure_drivers |-> fd] :
     fd \in {<<>>, <<DictRow("claim", <<1>>, Num(900))>>,
              <<StrRow("claim"), OtherRow, EmptyDict>>,
              <<MapStrRow("claim", <<1>>, Num(900)), MapStrRow(" ", <<>>, Missing)>>,
              <<MapStrRow("claim", <<InfId>>, Num(900))>>,
              <<DictRow("claim", <<InfId>>, Num(900))>>,
              <<DictRow("claim", NonListIds, Num(900))>>}}

Inputs == InputsOver({"K1"}, {"watsonx", "groq", "other"}, 0..MaxBundle, RecLists, 0..MaxGaps)

\* The concurrent model: one company, every provider configured, two
\* synthesis payloads that differ.
ConcInputs ==
  [key : {"K1"}, groq : {TRUE}, watsonx : {TRUE}, local : {TRUE},
   synthesis_provider : {"watsonx"}, bundle : {MaxBundle}, recs : {<<>>}, gaps : {0}]

ConcPayloads ==
  {Payload(<<DictRow("claim", <<id>>, Num(900))>>, <<>>, <<>>, OneRec, {}) :
     id \in {1, HallucinatedId}}

ConcDrafts == {[source |-> "groq", failure_drivers |-> <<>>]}

ConcMessages == {<<"msg">>}

\* The two-call model: a first call for company K1, then a second call for
\* K1 or K2.
PairInputs(Keys) ==
  [key : Keys, groq : {TRUE}, watsonx : Bool, local : {TRUE},
   synthesis_provider : {"watsonx", "groq"}, bundle : {1, MaxBundle}, recs : {<<>>},
   gaps : {0}]

PairPayloads ==
  {Payload(fd, <<>>, dis, OneRec, {}) :
     fd \in SeqsUpTo({DictRow("claim", <<MaxBundle>>, Num(900))}, 1),
     dis \in DisagreementLists}

PairDrafts == {[source |-> "groq", failure_drivers |-> <<>>]}

PairMessages == {<<"msg">>}

\* The steps of one call when every pool task finishes within its wait.
RunCore(r, I, D, P, M) ==
  \/ Call(r, I)
  \/ AcquireForCheck(r)
  \/ CacheLookup(r)
  \/ Validate(r)
  \/ Draft(r, D, M)
  \/ Submit(r)
  \/ CritiqueTask(r, M)
  \/ LocalTask(r, M)
  \/ AwaitCritique(r)
  \/ AwaitLocal(r)
  \/ PoolUnwind(r)
  \/ Synthesize(r, P, M)
  \/ SynthesisFailover(r, P, M)
  \/ ConsensusFallback(r)
  \/ CitationRepair(r)
  \/ Score(r)
  \/ Normalize(r)
  \/ AcquireForWrite(r)
  \/ CacheWrite(r)

Timeouts(r) == CritiqueTimeout(r) \/ LocalTimeout(r)

Init == InitCouncil /\ InitNormIdle

\* One call, from an empty cache, over the full ranges of inputs and outcomes.
Next == RunCore(1, Inputs, Drafts, Payloads, ExcMessages) \/ Timeouts(1)

Spec == Init /\ [][Next]_vars

\* Two callers, each calling again and again (MaxCalls calls in all), so
\* that calls overlap and later calls find the cache filled.
NextConc ==
  \E r \in Runs : RunCore(r, ConcInputs, ConcDrafts, ConcPayloads, ConcMessages) \/ Return(r)

SpecConc == Init /\ [][NextConc]_vars

\* Two calls, the second made once the first has returned or raised.
NextPair ==
  \/ RunCore(1, PairInputs({"K1"}), PairDrafts, PairPayloads, PairMessages)
  \/ /\ pc[1] \in {"done", "raised"}
     /\ RunCore(2, PairInputs({"K1", "K2"}), PairDrafts, PairPayloads, PairMessages)

SpecPair == Init /\ [][NextPair]_vars

\* The outage model: two callers with the same key and Groq as the
\* synthesis provider; each Groq operation either answers or raises, so a
\* call made during an outage ends in the consensus fallback and a call
\* made when Groq answers ends in the synthesised output.
OutageInputs ==
  [key : {"K1"}, groq : {TRUE}, watsonx : {TRUE}, local : {TRUE},
   synthesis_provider : {"groq"}, bundle : {1}, recs : {<<>>}, gaps : {0}]

OutagePayloads == {Payload(<<DictRow("claim", <<1>>, Num(900))>>, <<>>, <<>>, OneRec, {})}

OutageDrafts == {[source |-> "groq", failure_drivers |-> <<>>]}

OutageMessages == {<<"msg">>}

NextOutage ==
  \E r \in Runs :
    RunCore(r, OutageInputs, OutageDrafts, OutagePayloads, OutageMessages) \/ Return(r)

SpecOutage == Init /\ [][NextOutage]_vars

\* The scoring model: one call whose synthesis payloads range over the
\* citation coverages and over disagreement counts up to MaxDisScore.
ScoreInputs ==
  [key : {"K1"}, groq : Bool, watsonx : Bool, local : {TRUE},
   synthesis_provider : {"watsonx", "groq"}, bundle : {0, MaxBundle}, recs : {<<>>},
   gaps : {0}]

ScoreClaimRows ==
  {DictRow("claim", <<1>>, Num(900)), DictRow("claim", <<HallucinatedId>>, Num(900))}

ScorePayloads ==
  {Payload(fd, <<>>, [i \in 1..n |-> DictRow("claim", <<>>, Missing)], OneRec, {}) :
     fd \in SeqsUpTo(ScoreClaimRows, 2), n \in 0..MaxDisScore}

ScoreDrafts == {[source |-> "groq", failure_drivers |-> <<>>]}

NextScore == RunCore(1, ScoreInputs, ScoreDrafts, ScorePayloads, ExcMessages) \/ Timeouts(1)

SpecScore == Init /\ [][NextScore]_vars

\* The stage model: one call over every combination of configured clients
\* and every preference string, with up to MaxStageGaps metric gaps and up
\* to MaxStageRecs recommendations that differ from one another.
RecText(i) ==
  CASE i = 1 -> "rec1" [] i = 2 -> "rec2" [] i = 3 -> "rec3" [] i = 4 -> "rec4"
    [] i = 5 -> "rec5" [] OTHER -> "recN"

StageRecLists == {[i \in 1..n |-> StrRow(RecText(i))] : n \in {0, 1, MaxStageRecs}}

StageInputs ==
  [key : {"K1"}, groq : Bool, watsonx : Bool, local : {TRUE},
   synthesis_provider : {"watsonx", "groq", "other"}, bundle : {1}, recs : StageRecLists,
   gaps : {0, 1, MaxStageGaps}]

StagePayloads == {Payload(<<DictRow("claim", <<1>>, Num(900))>>, <<>>, <<>>, OneRec, {})}

StageDrafts == {[source |-> "groq", failure_drivers |-> <<DictRow("claim", <<1>>, Num(900))>>]}

NextStage == RunCore(1, StageInputs, StageDrafts, StagePayloads, ExcMessages) \/ Timeouts(1)

SpecStage == Init /\ [][NextStage]_vars

\* ------------------------------------------- the Output Normalizer alone
NormConfs ==
  {Num(0 - 200), Num(0), Num(450), Num(1000), Num(1700), Missing, NonNum, NonNumObj}

NormIdChoices == {<<>>, <<1>>, <<0, 2, 2, 0 - 1>>, <<1, InfId>>, NonListIds}

\* NaN and the infinities as a confidence, a score or a latency.
NormOddConfs == {Num(NaN), Num(Inf), Num(0 - Inf)}

NormTexts == {"claim", " claim ", "", " ", "None"}

NormRowSet ==
  {DictRow(t, ids, c) : t \in {"claim", ""}, ids \in NormIdChoices, c \in NormConfs}
    \cup {DictRow(t, <<1>>, c) : t \in NormTexts, c \in NormOddConfs \cup {Num(450)}}
    \cup {RecRow(t, e, c) : t \in {"claim", " "}, e \in NormTexts, c \in {Num(1700), Num(NaN)}}
    \cup {DisRow(t, <<g, w, l>>) :
            t \in {" claim ", ""}, g \in {"", " claim "}, w \in {" ", "claim"},
            l \in {"None", " claim "}}
    \cup {StrRow("claim"), MapStrRow("claim", <<1>>, Num(450)), OtherRow, EmptyDict}

Repeat(row, n) == [i \in 1..n |-> row]

\* The rows that lists of two rows are made of: every id choice, every text
\* and confidence, and every kind of row.
NormPairRowSet ==
  {DictRow("claim", ids, Num(450)) : ids \in NormIdChoices}
    \cup {DictRow(t, <<1>>, c) : t \in {"claim", ""}, c \in NormConfs}
    \cup {DictRow("", <<>>, Missing), StrRow("claim"), OtherRow, EmptyDict,
           RecRow(" claim ", " claim ", Num(NaN)),
           DisRow(" claim ", <<" claim ", "", " ">>)}

NormLists ==
  SeqsUpTo(NormRowSet, 1)
    \cup [1..2 -> NormPairRowSet]
    \cup {Repeat(DictRow("claim", <<1>>, Num(450)), n) : n \in 3..NormRows}

NormPayload(summary, fd, ss, dis, recs, overall, bad) ==
  [executive_summary |-> summary, failure_drivers |-> fd, survivor_strategies |-> ss,
   counterfactual_impact |-> NoImpact, disagreements |-> dis,
   final_recommendations |-> recs, overall_confidence |-> overall,
   model_breakdown |-> EmptyBreakdown, malformed |-> bad]

\* overall_confidence values with a fourth decimal: rounded down, rounded
\* up, above 1 and below 0.
NormFineConfs == {Fine(4502), Fine(4507), Fine(9996), Fine(12345), Fine(0 - 3)}

NormImpacts ==
  [before_score : {Missing, Num(620), Num(NaN), NonNum},
   after_score : {Missing, Num(0 - 300), Num(0 - Inf)},
   improvement_pct : {Num(1500), Num(Inf), NonNumObj}]

\* One model_breakdown entry: a raw draft or none, every kind of latency_ms
\* (an integer, a fraction above and below zero, no number, NaN, an
\* infinity), an error or none.
NormEntries ==
  [raw : {"empty", "draft"},
   latency_ms : {Missing, Num(12000), Num(3700), Num(0 - 3700), NonNum, Num(NaN), Num(Inf)},
   errors : {<<>>, <<"msg">>}]

\* A payload in which every field has something to normalize: seven
\* drivers, blanks around the texts, a fine overall_confidence, a NaN score
\* and a latency with a fraction.
RichPayload ==
  [NormPayload(" claim ", Repeat(DictRow(" claim ", <<0, 2, 2, 0 - 1>>, Num(NaN)), NormRows),
               <<DictRow("None", <<>>, Num(0 - Inf))>>,
               <<DisRow("", <<" claim ", " ", "">>)>>,
               <<RecRow(" claim ", "", Num(1700))>>, Fine(4507), {})
     EXCEPT !.counterfactual_impact =
              [before_score |-> Num(NaN), after_score |-> Num(620), improvement_pct |-> NonNum],
            !.model_breakdown.local =
              [raw |-> "draft", latency_ms |-> Num(3700), errors |-> <<"msg">>]]

\* Payloads handed to normalize_council_output: one list at a time takes
\* every value, next to a blank-text strategy row; then every summary and
\* overall_confidence; then every counterfactual_impact and every entry of
\* model_breakdown; then a field of the wrong shape.
NormPayloads ==
  {NormPayload("summary", l, <<DictRow("", <<>>, Missing)>>, <<>>, <<>>, Missing, {}) :
     l \in NormLists}
    \cup {NormPayload("summary", <<>>, l, <<>>, <<>>, Missing, {}) : l \in NormLists}
    \cup {NormPayload("summary", <<>>, <<>>, l, <<>>, Missing, {}) : l \in NormLists}
    \cup {NormPayload("summary", <<>>, <<>>, <<>>, l, Missing, {}) : l \in NormLists}
    \cup {NormPayload(t, <<>>, <<>>, <<>>, <<>>, c, {}) :
            t \in NormTexts, c \in NormConfs \cup NormOddConfs \cup NormFineConfs}
    \cup {[NormPayload("summary", <<>>, <<>>, <<>>, <<>>, Missing, {})
              EXCEPT !.counterfactual_impact = impact] : impact \in NormImpacts}
    \cup {[NormPayload("summary", <<>>, <<>>, <<>>, <<>>, Missing, {})
              EXCEPT !.model_breakdown[key] = entry] :
            key \in {"groq", "watsonx", "local"}, entry \in NormEntries}
    \cup {RichPayload}
    \cup {NormPayload("summary", <<>>, <<>>, <<>>, <<>>, Missing, {f}) :
            f \in {"failure_drivers", "survivor_strategies", "disagreements",
                   "final_recommendations", "counterfactual_impact", "model_breakdown"}}

InitNorm ==
  /\ InitCouncil
  /\ norm_in \in {<<p>> : p \in NormPayloads}
  /\ norm_out = <<>>
  /\ norm_pc = "ready"
  /\ InitBundleIdle
  /\ InitSanityIdle
  /\ InitFailoverIdle
  /\ InitAdapterIdle
  /\ InitIamIdle

councilVars ==
  <<cache, lock, pc, inp, runVars, ret, exc, log, returned, seen, calls>>

\* validate_council_output_dict(payload): the normalizer and to_dict.
NormalizeCall ==
  /\ norm_pc = "ready"
  /\ IF NormalizeRaises(norm_in[1])
       THEN /\ norm_pc' = "raised"
            /\ norm_out' = <<>>
       ELSE /\ norm_pc' = "done"
            /\ norm_out' = <<NormalizeCouncilOutput(norm_in[1])>>
  /\ UNCHANGED <<norm_in, councilVars, helperVars>>

NextNorm == NormalizeCall

SpecNorm == InitNorm /\ [][NextNorm]_vars

\* One entry of the returned model_breakdown, read as a payload entry:
\* latency_ms is an int of milliseconds.
AsEntry(entry) ==
  [raw |-> entry.raw, latency_ms |-> Num(entry.latency_ms * 1000), errors |-> entry.errors]

\* CouncilOutput.to_dict(): the returned map, read as a payload again. Its
\* rows are maps with the same keys and its numbers are floats.
AsPayload(out) ==
  [executive_summary |-> out.executive_summary,
   failure_drivers |->
     [i \in 1..Len(out.failure_drivers) |->
        DictRow(out.failure_drivers[i].text, out.failure_drivers[i].evidence_ids,
                Num(out.failure_drivers[i].confidence))],
   survivor_strategies |->
     [i \in 1..Len(out.survivor_strategies) |->
        DictRow(out.survivor_strategies[i].text, out.survivor_strategies[i].evidence_ids,
                Num(out.survivor_strategies[i].confidence))],
   counterfactual_impact |->
     [before_score |-> Num(out.counterfactual_impact.before_score),
      after_score |-> Num(out.counterfactual_impact.after_score),
      improvement_pct |-> Num(out.counterfactual_impact.improvement_pct)],
   disagreements |->
     [i \in 1..Len(out.disagreements) |->
        DisRow(out.disagreements[i].topic,
               <<out.disagreements[i].groq_view, out.disagreements[i].watsonx_view,
                 out.disagreements[i].local_view>>)],
   final_recommendations |->
     [i \in 1..Len(out.final_recommendations) |->
        RecRow(out.final_recommendations[i].action,
               out.final_recommendations[i].expected_effect,
               Num(out.final_recommendations[i].confidence))],
   overall_confidence |-> Num(out.overall_confidence),
   model_breakdown |->
     [groq |-> AsEntry(out.model_breakdown.groq),
      watsonx |-> AsEntry(out.model_breakdown.watsonx),
      local |-> AsEntry(out.model_breakdown.local)],
   malformed |-> {}]

\* validate_council_output_dict applied to its own result.
RenormalizeCall ==
  /\ norm_pc = "done"
  /\ Len(norm_out) = 1
  /\ IF NormalizeRaises(AsPayload(norm_out[1]))
       THEN /\ norm_pc' = "raised_again"
            /\ norm_out' = norm_out
       ELSE /\ norm_pc' = "done_again"
            /\ norm_out' = Append(norm_out, NormalizeCouncilOutput(AsPayload(norm_out[1])))
  /\ UNCHANGED <<norm_in, councilVars, helperVars>>

NextIdem == NormalizeCall \/ RenormalizeCall

SpecIdem == InitNorm /\ [][NextIdem]_vars

\* ------------------------------- app.py: _build_council_evidence_bundle
\* A text is "" (empty, None or another falsy value), " " (whitespace only)
\* or "text"; str(text or "").strip(), Strip here, takes the first two to
\* "".

NoSnippets == [snippets |-> <<>>, next_id |-> 1]

\* An add_items that spends an id on a text it skips.
RECURSIVE AddItemsCountBlank(_, _, _, _, _)
AddItemsCountBlank(st, label, texts, sources, idx) ==
  IF idx > Len(texts) THEN st
  ELSE LET cleaned == Strip(texts[idx])
           source == IF idx <= Len(sources) THEN sources[idx] ELSE ""
           item == [id |-> st.next_id, label |-> label, text |-> cleaned, source |-> source]
       IN AddItemsCountBlank(
            [snippets |-> IF cleaned = "" THEN st.snippets ELSE Append(st.snippets, item),
             next_id |-> st.next_id + 1],
            label, texts, sources, idx + 1)

\* add_items (lines 276-285), from position idx of texts on; st holds the
\* snippets so far and next_id.
RECURSIVE AddItems(_, _, _, _, _)
AddItems(st, label, texts, sources, idx) ==
  IF idx > Len(texts) THEN st
  ELSE LET cleaned == Strip(texts[idx])
           source == IF idx <= Len(sources) THEN sources[idx] ELSE ""
           item == [id |-> st.next_id, label |-> label, text |-> cleaned, source |-> source]
       IN IF cleaned = ""
            THEN AddItems(st, label, texts, sources, idx + 1)
            ELSE AddItems([snippets |-> Append(st.snippets, item), next_id |-> st.next_id + 1],
                          label, texts, sources, idx + 1)

\* The seven add_items calls of lines 289-295, in order: label, texts, sources.
ChannelsOf(intel) ==
  <<[label |-> "failure_check", texts |-> <<intel.answer>> \o intel.fc_snippets,
     sources |-> intel.fc_sources],
    [label |-> "macro", texts |-> intel.macro_notes, sources |-> intel.macro_sources],
    [label |-> "micro", texts |-> intel.micro_notes, sources |-> intel.micro_sources],
    [label |-> "industry", texts |-> intel.industry_notes, sources |-> intel.industry_sources],
    [label |-> "news", texts |-> intel.news_notes, sources |-> intel.news_sources],
    [label |-> "strategy", texts |-> intel.strategy_notes, sources |-> intel.strategy_sources],
    [label |-> "qualitative", texts |-> intel.qual_snippets,
     sources |-> intel.qualitative_sources]>>

RECURSIVE AddChannels(_, _, _)
AddChannels(st, channels, c) ==
  IF c > Len(channels) THEN st
  ELSE AddChannels(AddItems(st, channels[c].label, channels[c].texts, channels[c].sources, 1),
                   channels, c + 1)

\* _build_council_evidence_bundle(intelligence)["snippets"]
BuildCouncilEvidenceBundle(intel) == AddChannels(NoSnippets, ChannelsOf(intel), 1).snippets

Texts == {"", " ", "text"}

SourceLists == SeqsUpTo({"url"}, MaxSources)

\* The intelligence maps of the model: the failure check, the macro notes
\* and the qualitative snippets vary, the other channels are absent.
Intelligences ==
  [answer : Texts, fc_snippets : SeqsUpTo(Texts, MaxTexts - 1), fc_sources : SourceLists,
   macro_notes : SeqsUpTo(Texts, MaxTexts), macro_sources : SourceLists,
   micro_notes : {<<>>}, micro_sources : {<<>>},
   industry_notes : {<<>>}, industry_sources : {<<>>},
   news_notes : {<<>>}, news_sources : {<<>>},
   strategy_notes : {<<>>}, strategy_sources : {<<>>},
   qual_snippets : SeqsUpTo({"text"}, 1), qualitative_sources : {<<>>}]

InitBundle ==
  /\ InitCouncil
  /\ norm_in = <<>> /\ norm_out = <<>> /\ norm_pc = "idle"
  /\ bundle_in \in {<<i>> : i \in Intelligences}
  /\ bundle_out = <<>>
  /\ InitSanityIdle
  /\ InitFailoverIdle
  /\ InitAdapterIdle
  /\ InitIamIdle

BuildBundleCall ==
  /\ bundle_in # <<>>
  /\ bundle_out = <<>>
  /\ bundle_out' = <<BuildCouncilEvidenceBundle(bundle_in[1])>>
  /\ UNCHANGED <<ad, iam, bundle_in, sanity_in, sanity_out, fo, norm_in, norm_out, norm_pc, councilVars>>

NextBundle == BuildBundleCall

SpecBundle == InitBundle /\ [][NextBundle]_vars

\* ------------------------------------------------- _local_sanity_check
\* The flags of _local_sanity_check (lines 144-150) for the local model's
\* risk before and after (thousandths), the failing_risk_score and the
\* simulation's improvement_percentage (0 when the key is missing).
LocalSanityFlags(i) ==
  LET improvement == IF i.improvement.t = "num" THEN i.improvement.v ELSE 0
      overstates == IF i.before < 450 /\ i.failing_risk_score > 65
                      THEN <<"overstates">> ELSE <<>>
      conflicts == IF i.before > i.after /\ improvement <= 0
                     THEN <<"conflicts">> ELSE <<>>
      flags == overstates \o conflicts
  IN IF flags = <<>> THEN <<"aligns">> ELSE flags

SanityInputs ==
  [before : {300, 450, 600}, after : {300, 450, 600}, failing_risk_score : {0, 65, 66},
   improvement : {Num(0 - 5), Num(0), Num(5), Missing}]

InitSanity ==
  /\ InitCouncil
  /\ norm_in = <<>> /\ norm_out = <<>> /\ norm_pc = "idle"
  /\ InitBundleIdle
  /\ sanity_in \in {<<i>> : i \in SanityInputs}
  /\ sanity_out = <<>>
  /\ InitFailoverIdle
  /\ InitAdapterIdle
  /\ InitIamIdle

SanityCall ==
  /\ sanity_in # <<>>
  /\ sanity_out = <<>>
  /\ sanity_out' = <<LocalSanityFlags(sanity_in[1])>>
  /\ UNCHANGED <<ad, iam, sanity_in, bundle_in, bundle_out, fo, norm_in, norm_out, norm_pc, councilVars>>

NextSanity == SanityCall

SpecSanity == InitSanity /\ [][NextSanity]_vars

\* ------------------------------ app.py: _invoke_with_provider_failover
\* _enabled_provider_chain: groq is "none" (no client), "disabled" (a client
\* without an API key) or "enabled"; watsonx is whether a client exists.
EnabledProviderChain(provider_choice, groq, watsonx) ==
  LET ordered == IF provider_choice = "IBM watsonx.ai"
                   THEN <<"IBM watsonx.ai", "Groq">>
                   ELSE <<"Groq", "IBM watsonx.ai">>
  IN SelectIdx(ordered,
               [k \in 1..Len(ordered) |->
                  IF ordered[k] = "Groq" THEN groq = "enabled" ELSE watsonx],
               1)

\* _normalize_provider_error raises exactly when it reaches line 690.
NormalizeProviderErrorRaises(provider_name, message) ==
  message # <<>> /\ provider_name = "IBM watsonx.ai" /\ ~WatsonxHasSummarizeError

\* _normalize_provider_error: a blank message becomes "Unknown provider error.".
NormalizeProviderError(provider_name, message) ==
  IF message = <<>> THEN <<"Unknown provider error.">> ELSE message

\* What invoking one provider can do: the method is missing, it raises (with
\* or without a message), it returns something that is no dict, a dict the
\* validator rejects, a dict it accepts, or a dict on which it raises.
ProviderOutcomes ==
  {"no_method", "raises", "raises_blank", "not_dict", "rejected", "accepted",
   "validator_raises"}

\* The caller builds the chain and enters _invoke_with_provider_failover
\* (lines 706-707).
FailoverStart ==
  /\ fo.status = "idle"
  /\ \E choice \in {"IBM watsonx.ai", "Groq"}, groq \in {"none", "disabled", "enabled"},
        watsonx \in Bool :
       LET chain == EnabledProviderChain(choice, groq, watsonx)
       IN fo' = [status |-> "running", choice |-> choice, chain |-> chain, idx |-> 1,
                 errors |-> <<>>, calls |-> <<>>, result |-> <<>>,
                 provider |-> IF chain # <<>> THEN chain[1] ELSE "None", exc |-> ""]
  /\ UNCHANGED <<ad, iam, bundle_in, bundle_out, sanity_in, sanity_out, norm_in, norm_out, norm_pc,
                 councilVars>>

\* One pass of the loop body (lines 708-725) for the provider at fo.idx.
FailoverInvoke ==
  /\ fo.status = "running"
  /\ fo.idx <= Len(fo.chain)
  /\ \E outcome \in ProviderOutcomes :
       LET name == fo.chain[fo.idx]
           called == IF outcome = "no_method" THEN fo.calls ELSE Append(fo.calls, fo.idx)
           message == IF outcome = "raises" THEN <<"msg">> ELSE <<>>
           failed(kind) == [fo EXCEPT !.idx = @ + 1, !.calls = called,
                                      !.errors = Append(@, [provider |-> name, kind |-> kind])]
       IN fo' =
            CASE outcome = "no_method" -> failed(<<"method not available">>)
              [] outcome \in {"raises", "raises_blank"} ->
                   IF NormalizeProviderErrorRaises(name, message)
                     THEN [fo EXCEPT !.status = "raised", !.calls = called,
                                     !.exc = "AttributeError"]
                     ELSE failed(NormalizeProviderError(name, message))
              [] outcome \in {"not_dict", "rejected"} -> failed(<<"invalid response payload">>)
              [] outcome = "validator_raises" ->
                   [fo EXCEPT !.status = "raised", !.calls = called, !.exc = "validator"]
              [] OTHER ->
                   [fo EXCEPT !.status = "returned", !.calls = called,
                              !.result = <<name>>, !.provider = name]
  /\ UNCHANGED <<ad, iam, bundle_in, bundle_out, sanity_in, sanity_out, norm_in, norm_out, norm_pc,
                 councilVars>>

\* Line 726: the chain is exhausted.
FailoverExhausted ==
  /\ fo.status = "running"
  /\ fo.idx > Len(fo.chain)
  /\ fo' = [fo EXCEPT !.status = "returned"]
  /\ UNCHANGED <<ad, iam, bundle_in, bundle_out, sanity_in, sanity_out, norm_in, norm_out, norm_pc,
                 councilVars>>

NextFailover == FailoverStart \/ FailoverInvoke \/ FailoverExhausted

SpecFailover == Init /\ [][NextFailover]_vars

\* ------------------------------------------------------------ ibm_iam.py
\* The clock is in seconds and runs up to MaxClock. A token is the pair of
\* the API key it was issued for and the serial number of its issue.
MaxClock == 120

\* No call starts once MaxIssued tokens have been issued.
MaxIssued == 2

\* Line 33: the cached token is reused while more than 60 seconds remain.
IamMargin == 60

IamKeys == {"", " ", "A", " A", "B"}

\* (api_key or "").strip(), line 28.
CleanedKey(k) ==
  CASE k = " " -> ""
    [] k = " A" -> "A"
    [] OTHER -> k

\* What requests.post and the response hold: the POST raising, a rejected
\* response, a body that is not JSON, a JSON body that is not an object, a
\* body without access_token, and a body with a token and some of
\* expiration (absolute) and expires_in.
IamResponses ==
  {[kind |-> k, expiration |-> <<>>, expires_in |-> <<>>] :
     k \in {"exception", "rejected", "bad_json", "not_object", "no_token"}}
  \cup [kind : {"ok"}, expiration : {<<>>, <<90>>}, expires_in : {<<>>, <<0>>, <<61>>, <<90>>}]

\* Lines 73-77: expiration wins over expires_in; <<>> is None.
IamExpiresAt(resp, now) ==
  IF resp.expiration # <<>> THEN resp.expiration
  ELSE IF resp.expires_in # <<>> THEN <<now + resp.expires_in[1]>>
  ELSE <<>>

\* Lines 45-80: the exception the request ends in, "" when the response
\* holds a token and an expiry after `now`.
IamResponseExc(resp, now) ==
  IF resp.kind \in {"exception", "rejected", "bad_json", "no_token"} THEN "RuntimeError"
  ELSE IF resp.kind = "not_object" THEN "AttributeError"
  ELSE IF IamExpiresAt(resp, now) = <<>> THEN "RuntimeError"
  ELSE IF IamExpiresAt(resp, now)[1] <= now THEN "RuntimeError"
  ELSE ""

\* Lines 26-32: the key is cleaned, a blank key is a ValueError, else the
\* clock is read.
IamBegin(i, t, k) ==
  [i EXCEPT !.th[t] =
     IF CleanedKey(k) = ""
       THEN [NoIamCall EXCEPT !.pc = "raised", !.exc = "ValueError"]
       ELSE [NoIamCall EXCEPT !.pc = "test_token", !.key = CleanedKey(k), !.at = i.now]]

\* The next statement of thread t inside get_iam_token; resp is what the
\* IAM service answers if that statement is the request. Each read and
\* each write of the two module globals is a statement of its own: no lock
\* is held around them.
IamAdvance(i, t, resp) ==
  LET c == i.th[t]
      token == [key |-> c.key, serial |-> i.issued + 1]
  IN CASE c.pc = "test_token" ->    \* line 33: `_CACHED_TOKEN and`
            [i EXCEPT !.th[t].pc = IF i.token # <<>> THEN "test_expiry" ELSE "post"]
       [] c.pc = "test_expiry" ->   \* line 33: (_CACHED_EXPIRES_AT - now) > 60
            [i EXCEPT !.th[t].pc =
               IF i.expires_at - c.at > IamMargin THEN "load_token" ELSE "post"]
       [] c.pc = "post" ->          \* lines 36-80
            IF IamResponseExc(resp, c.at) # ""
              THEN [i EXCEPT !.th[t].pc = "raised", !.th[t].requested = TRUE,
                             !.th[t].exc = IamResponseExc(resp, c.at)]
              ELSE [i EXCEPT !.issued = @ + 1,
                             !.th[t].pc = "store_token", !.th[t].requested = TRUE,
                             !.th[t].access_token = <<token>>,
                             !.th[t].expires_at = IamExpiresAt(resp, c.at)[1]]
       [] c.pc = "store_token" ->   \* line 82
            [i EXCEPT !.token = c.access_token, !.th[t].pc = "store_expiry"]
       [] c.pc = "store_expiry" ->  \* line 83
            [i EXCEPT !.expires_at = c.expires_at, !.th[t].pc = "load_token"]
       [] c.pc = "load_token" ->    \* lines 34 and 84: _CACHED_TOKEN is read
            [i EXCEPT !.th[t].out = i.token, !.th[t].pc = "load_expiry"]
       [] c.pc = "load_expiry" ->   \* lines 34 and 84: _CACHED_EXPIRES_AT is read
            [i EXCEPT !.th[t].out = Append(c.out, i.expires_at), !.th[t].pc = "returned"]
       [] OTHER -> i

iamOthers ==
  <<cache, lock, pc, inp, runVars, ret, exc, log, returned, seen, calls, norm_in,
    norm_out, norm_pc, bundle_in, bundle_out, sanity_in, sanity_out, fo, ad>>

\* The clock is read every IamStep seconds.
IamStep == 30

\* time.time() moves on.
IamTick ==
  /\ iam.now + IamStep <= MaxClock
  /\ iam' = [iam EXCEPT !.now = @ + IamStep]
  /\ UNCHANGED iamOthers

\* A thread calls get_iam_token(api_key).
IamCall(t) ==
  /\ iam.th[t].pc \in {"idle", "returned", "raised"}
  /\ iam.issued < MaxIssued
  /\ \E k \in IamKeys : iam' = IamBegin(iam, t, k)
  /\ UNCHANGED iamOthers

\* One statement of get_iam_token that reads or writes a module global:
\* the two operands of the test at line 33, the writes at lines 82 and 83,
\* the two reads of the return at lines 34 and 84.
IamStatement(t) ==
  /\ iam.th[t].pc \in {"test_token", "test_expiry", "store_token", "store_expiry",
                       "load_token", "load_expiry"}
  /\ iam' = IamAdvance(iam, t, CHOOSE resp \in IamResponses : TRUE)
  /\ UNCHANGED iamOthers

\* Lines 36-80: the request and the reading of its response.
IamPost(t) ==
  /\ iam.th[t].pc = "post"
  /\ \E resp \in IamResponses : iam' = IamAdvance(iam, t, resp)
  /\ UNCHANGED iamOthers

NextIam ==
  \/ \E t \in IamThreads : IamCall(t) \/ IamStatement(t) \/ IamPost(t)
  \/ IamTick

SpecIam == Init /\ [][NextIam]_vars

\* ------------------------------------- the council operations of the adapters
\* groq_client.py line 39: the models _chat_json tries in turn.
GroqModelCount == 2
\* groq_client.py line 95: for attempt in range(2).
GroqAttempts == 2
\* watsonx_client.py line 124: for attempt in range(2).
WatsonxAttempts == 2

CouncilOps == {"generate_council_draft", "generate_council_critique", "synthesize_council_output"}

\* What one POST to Groq leads to inside the try block (lines 106-125): content
\* that _extract_json turns into a non-empty dict, content it cannot (None,
\* or an empty object), or an exception (request, HTTP status, envelope).
GroqResponses == {"object", "invalid", "error"}

\* What one POST to watsonx leads to (lines 128-177).
WatsonxResponses ==
  {"object", "non_json", "json_not_object", "request_error", "redirect", "http_error",
   "bad_envelope", "no_message"}

\* _candidate_endpoints: no base URL, a full chat-completions URL, or a host.
EndpointCounts == {0, 1, 3}

\* A council operation that hands on whatever _chat_json returned.
GroqOpResultUnchecked(parsed) == [status |-> "returned", result |-> parsed, exc |-> ""]

\* The end of a Groq council operation (lines 369-372, 392-395, 419-422):
\* `if not parsed: raise RuntimeError(...)`, else return parsed.
GroqOpResult(parsed) ==
  IF parsed = "none"
    THEN [status |-> "raised", result |-> "none", exc |-> "RuntimeError"]
    ELSE [status |-> "returned", result |-> parsed, exc |-> ""]

\* A loop that makes a third attempt on a model after two invalid responses.
GroqNextThreeAttempts(target, attempt, outcome) ==
  IF outcome = "invalid" /\ attempt + 1 < GroqAttempts + 1
    THEN [target |-> target, attempt |-> attempt + 1, repair |-> TRUE]
    ELSE [target |-> target + 1, attempt |-> 0, repair |-> FALSE]

\* Where Groq's loops (lines 93-128) go after a response that did not
\* return: an invalid response moves to the next attempt on the same model
\* with the repair prompt, an exception breaks to the next model, and the
\* next model starts again from the plain prompt.
GroqNext(target, attempt, outcome) ==
  IF outcome = "invalid" /\ attempt + 1 < GroqAttempts
    THEN [target |-> target, attempt |-> attempt + 1, repair |-> TRUE]
    ELSE [target |-> target + 1, attempt |-> 0, repair |-> FALSE]

\* watsonx _extract_json (lines 60-83): a dict, or ValueError.
WatsonxExtractRaises(outcome) == outcome \in {"non_json", "json_not_object"}

AdapterCall ==
  /\ ad.status \in {"idle", "returned", "raised"}
  /\ \E client \in {"groq", "watsonx"}, op \in CouncilOps, ready \in Bool,
        endpoints \in EndpointCounts :
       /\ client = "groq" => endpoints = 1
       /\ ad' = [NoAdapter EXCEPT !.status = "running", !.client = client, !.op = op,
                                  !.ready = ready, !.endpoints = endpoints, !.target = 1]
  /\ UNCHANGED <<iam, fo, bundle_in, bundle_out, sanity_in, sanity_out, norm_in, norm_out,
                 norm_pc, councilVars>>

\* One pass of Groq's inner loop body: one POST and what follows it.
GroqRequest ==
  /\ ad.status = "running" /\ ad.client = "groq"
  /\ ad.ready /\ ad.target <= GroqModelCount
  /\ \E outcome \in GroqResponses :
       LET sent == Append(ad.requests, [target |-> ad.target, attempt |-> ad.attempt,
                                        repair |-> ad.repair, outcome |-> outcome])
           next == GroqNext(ad.target, ad.attempt, outcome)
           done == GroqOpResult("map")
       IN ad' = IF outcome = "object"
                  THEN [ad EXCEPT !.requests = sent, !.status = done.status,
                                  !.result = done.result, !.exc = done.exc]
                  ELSE [ad EXCEPT !.requests = sent, !.target = next.target,
                                  !.attempt = next.attempt, !.repair = next.repair]
  /\ UNCHANGED <<iam, fo, bundle_in, bundle_out, sanity_in, sanity_out, norm_in, norm_out,
                 norm_pc, councilVars>>

\* Lines 84-85 and 130: _chat_json returns None when the client has no API
\* key or when every model is exhausted; the operation then ends.
GroqExhausted ==
  /\ ad.status = "running" /\ ad.client = "groq"
  /\ ~ad.ready \/ ad.target > GroqModelCount
  /\ LET done == GroqOpResult("none")
     IN ad' = [ad EXCEPT !.status = done.status, !.result = done.result, !.exc = done.exc]
  /\ UNCHANGED <<iam, fo, bundle_in, bundle_out, sanity_in, sanity_out, norm_in, norm_out,
                 norm_pc, councilVars>>

\* The API key of the configured watsonx client.
WatsonxApiKey == "A"

\* The thread that runs the adapter's operation.
AdapterThread == 1

\* watsonx lines 93-101: a missing key, project or model is a ValueError;
\* else the thread enters get_iam_token(self.api_key). The statements of
\* get_iam_token are IamStatement and IamPost of this thread: other callers
\* of get_iam_token run in between, the wait in requests.post included.
WatsonxPrepare ==
  /\ ad.status = "running" /\ ad.client = "watsonx"
  /\ ad.access_token = <<>> /\ ~ad.in_iam
  /\ iam.th[AdapterThread].pc \in {"idle", "returned", "raised"}
  /\ IF ~ad.ready
       THEN /\ ad' = [ad EXCEPT !.status = "raised", !.exc = "ValueError"]
            /\ UNCHANGED iam
       ELSE /\ iam' = IamBegin(iam, AdapterThread, WatsonxApiKey)
            /\ ad' = [ad EXCEPT !.in_iam = TRUE]
  /\ UNCHANGED <<fo, bundle_in, bundle_out, sanity_in, sanity_out, norm_in, norm_out,
                 norm_pc, councilVars>>

\* Lines 101 and 124-127: get_iam_token is over. Its exception leaves the
\* operation; else access_token is the token it returned, and a missing base
\* URL is a ValueError of _candidate_endpoints.
WatsonxAuthorize ==
  /\ ad.status = "running" /\ ad.client = "watsonx" /\ ad.in_iam
  /\ iam.th[AdapterThread].pc \in {"returned", "raised"}
  /\ LET call == iam.th[AdapterThread]
     IN ad' = IF call.pc = "raised"
                THEN [ad EXCEPT !.status = "raised", !.exc = call.exc, !.in_iam = FALSE]
              ELSE IF ad.endpoints = 0
                THEN [ad EXCEPT !.status = "raised", !.exc = "ValueError", !.in_iam = FALSE,
                                !.access_token = <<call.out[1]>>]
              ELSE [ad EXCEPT !.access_token = <<call.out[1]>>, !.in_iam = FALSE]
  /\ UNCHANGED <<iam, fo, bundle_in, bundle_out, sanity_in, sanity_out, norm_in, norm_out,
                 norm_pc, councilVars>>

\* One pass of the watsonx endpoint loop body (lines 127-188).
WatsonxRequest ==
  /\ ad.status = "running" /\ ad.client = "watsonx"
  /\ ad.access_token # <<>>
  /\ ad.attempt < WatsonxAttempts /\ ad.target <= ad.endpoints
  /\ \E outcome \in WatsonxResponses :
       LET sent == Append(ad.requests, [target |-> ad.target, attempt |-> ad.attempt,
                                        repair |-> ad.repair, outcome |-> outcome])
           last == ad.target = ad.endpoints
       IN ad' =
            CASE outcome \in {"request_error", "redirect", "http_error"} ->
                   [ad EXCEPT !.requests = sent, !.endpoint_errors = TRUE,
                              !.target = IF last THEN 1 ELSE @ + 1,
                              !.attempt = IF last THEN @ + 1 ELSE @]
              [] outcome \in {"bad_envelope", "no_message"} ->
                   [ad EXCEPT !.requests = sent, !.status = "raised", !.exc = "RuntimeError"]
              [] WatsonxExtractRaises(outcome) ->
                   [ad EXCEPT !.requests = sent, !.parse_error = TRUE,
                              !.endpoint_errors = TRUE, !.repair = TRUE,
                              !.target = 1, !.attempt = @ + 1]
              [] OTHER ->
                   [ad EXCEPT !.requests = sent, !.status = "returned", !.result = "map"]
  /\ UNCHANGED <<iam, fo, bundle_in, bundle_out, sanity_in, sanity_out, norm_in, norm_out,
                 norm_pc, councilVars>>

\* Lines 190-195: both rounds are over without a return.
WatsonxExhausted ==
  /\ ad.status = "running" /\ ad.client = "watsonx"
  /\ ad.access_token # <<>>
  /\ ad.attempt >= WatsonxAttempts
  /\ ad' = [ad EXCEPT !.status = "raised",
                      !.exc = IF ad.parse_error THEN "ValueError" ELSE "RuntimeError"]
  /\ UNCHANGED <<iam, fo, bundle_in, bundle_out, sanity_in, sanity_out, norm_in, norm_out,
                 norm_pc, councilVars>>

\* The steps of the thread that runs the operation.
AdapterStep ==
  \/ GroqRequest
  \/ GroqExhausted
  \/ WatsonxPrepare
  \/ IamStatement(AdapterThread)
  \/ IamPost(AdapterThread)
  \/ WatsonxAuthorize
  \/ WatsonxRequest
  \/ WatsonxExhausted

NextAdapter ==
  \/ AdapterCall
  \/ AdapterStep

SpecAdapter == Init /\ [][NextAdapter]_vars

\* Another thread of the process calls get_iam_token.
OtherIamStep ==
  \E t \in IamThreads \ {AdapterThread} : IamCall(t) \/ IamStatement(t) \/ IamPost(t)

\* A watsonx operation up to its first chat request, with another caller of
\* get_iam_token running beside it.
NextAdapterConc ==
  \/ AdapterCall
  \/ WatsonxPrepare
  \/ IamStatement(AdapterThread)
  \/ IamPost(AdapterThread)
  \/ WatsonxAuthorize
  \/ OtherIamStep

SpecAdapterConc == Init /\ [][NextAdapterConc]_vars

\* A request returns or times out (timeout=self.timeout_seconds, IAM: 20
\* seconds), and the calling thread keeps running, so the operation keeps
\* taking its next step.
SpecAdapterLive == Init /\ [][NextAdapter]_vars /\ WF_vars(AdapterStep)

\* ------------------------------------------------------------- claims
\* C1 (as stated): run_reasoning_council never fails for any inputs and any
\* combination of provider failures: no call ends in an exception, and every
\* call that ends returns a map whose lists keep their maximum lengths
\* (5 drivers, 5 strategies, 6 disagreements, 5 recommendations).
C1_Totality ==
  \A r \in Runs :
    /\ pc[r] # "raised"
    /\ pc[r] = "done" =>
         LET o == ret[r][1]
         IN /\ Len(o.failure_drivers) <= 5
            /\ Len(o.survivor_strategies) <= 5
            /\ Len(o.disagreements) <= 6
            /\ Len(o.final_recommendations) <= 5
            /\ o.overall_confidence \in 0..1000

\* C2 (as stated): in every returned output each evidence id of each failure
\* driver and survivor strategy is an id of the evidence bundle of that call,
\* and a claim that cites nothing has confidence at most 0.45.
C2_CitationClosure ==
  \A r \in Runs :
    pc[r] = "done" =>
      LET o == ret[r][1]
          claims == o.failure_drivers \o o.survivor_strategies
      IN \A i \in 1..Len(claims) :
           /\ \A j \in 1..Len(claims[i].evidence_ids) :
                claims[i].evidence_ids[j] \in 1..inp[r].bundle
           /\ claims[i].evidence_ids = <<>> => claims[i].confidence <= 450

\* C3 (as stated): once a call has returned an output for a company and
\* inputs, every later call with the same inputs returns that same map and
\* invokes no provider.
C3_IdempotentCaching ==
  \A r \in Runs :
    (pc[r] = "done" /\ seen[r] # {}) =>
      (seen[r] = {ret[r][1]} /\ log[r] = <<>>)

\* C4 (as stated): a cache entry, once written for a key, is never replaced
\* or altered by a later call, overlapping calls included.
C4_CacheImmutable ==
  [][\A k \in DOMAIN cache : k \in DOMAIN cache' /\ cache'[k] = cache[k]]_vars

\* C5 (as stated): no call makes more than two synthesis attempts, and when
\* the watsonx synthesis fails while Groq is configured, the synthesis is
\* tried once more on Groq before the run goes on to the consensus fallback
\* or ends.
C5_SynthesisFailover ==
  \A r \in Runs :
    LET syn == SelectIdx(log[r], [i \in 1..Len(log[r]) |-> log[r][i].op = "synthesis"], 1)
    IN /\ Len(syn) <= 2
       /\ (/\ pc[r] \in {"fallback", "repair", "score", "normalize", "lock_write",
                         "write", "done", "raised"}
           /\ inp[r].groq
           /\ syn # <<>>
           /\ syn[1].by = "watsonx"
           /\ ~syn[1].ok)
          => (Len(syn) = 2 /\ syn[2].by = "groq")

\* C6 (as stated): when every watsonx call of a run raises while Groq's
\* draft and synthesis calls succeed, the run completes, its output has at
\* least one failure driver, and model_breakdown.watsonx.errors is non-empty.
C6_SecondaryDown ==
  \A r \in Runs :
    LET wx == SelectIdx(log[r], [i \in 1..Len(log[r]) |-> log[r][i].by = "watsonx"], 1)
        gq == SelectIdx(log[r], [i \in 1..Len(log[r]) |-> log[r][i].by = "groq"], 1)
    IN (/\ pc[r] \in {"done", "raised"}
        /\ wx # <<>>
        /\ \A i \in 1..Len(wx) : ~wx[i].ok
        /\ gq # <<>>
        /\ gq[1].op = "draft"
        /\ \A i \in 1..Len(gq) : gq[i].ok)
       => /\ pc[r] = "done"
          /\ ret[r][1].failure_drivers # <<>>
          /\ ret[r][1].model_breakdown.watsonx.errors # <<>>

\* C7 (as stated): when Groq, watsonx and the local model are all configured
\* and every call to each of them raises, the run returns, and the returned
\* output has the consensus fallback summary, overall_confidence 0.3 and a
\* non-empty final_recommendations.
C7_TotalOutage ==
  \A r \in Runs :
    (/\ pc[r] \in {"done", "raised"}
     /\ inp[r].groq /\ inp[r].watsonx /\ inp[r].local
     /\ \A by \in {"groq", "watsonx", "local"} :
          \E i \in 1..Len(log[r]) : log[r][i].by = by
     /\ \A i \in 1..Len(log[r]) : ~log[r][i].ok)
    => /\ pc[r] = "done"
       /\ ret[r][1].executive_summary = "consensus fallback"
       /\ ret[r][1].overall_confidence = 300
       /\ ret[r][1].final_recommendations # <<>>

\* C8: the four lists of every output of the normalizer are non-empty, a
\* single "Evidence unavailable" placeholder entry standing in when the
\* payload supplies no usable entry for a list.
C8_ListsNonEmpty ==
  norm_pc = "done" =>
    /\ norm_out[1].failure_drivers # <<>>
    /\ norm_out[1].survivor_strategies # <<>>
    /\ norm_out[1].disagreements # <<>>
    /\ norm_out[1].final_recommendations # <<>>

\* C9: for every payload the normalizer accepts, negative, above 1,
\* non-numeric and missing confidences included, the overall confidence and
\* the confidence of every returned failure driver, survivor strategy and
\* recommendation lie in [0, 1] (0..1000 thousandths).
C9_ConfidenceBounds ==
  norm_pc = "done" =>
    LET o == norm_out[1]
    IN /\ o.overall_confidence \in 0..1000
       /\ \A i \in 1..Len(o.failure_drivers) :
            o.failure_drivers[i].confidence \in 0..1000
       /\ \A i \in 1..Len(o.survivor_strategies) :
            o.survivor_strategies[i].confidence \in 0..1000
       /\ \A i \in 1..Len(o.final_recommendations) :
            o.final_recommendations[i].confidence \in 0..1000

\* C9 witness: a payload with a driver confidence above 1 and one that is
\* not a number has been normalized to 1 and 0.
C9_Witness ==
  /\ norm_pc = "done"
  /\ Len(norm_in[1].failure_drivers) = 2
  /\ norm_in[1].failure_drivers[1].conf = Num(1700)
  /\ norm_in[1].failure_drivers[2].conf = NonNum
  /\ norm_out[1].failure_drivers[1].confidence = 1000
  /\ norm_out[1].failure_drivers[2].confidence = 0

\* C10: of two completed runs with the same final claims and the same number
\* of disagreements, the same Groq and local outcomes, one with watsonx
\* absent and one with watsonx configured and succeeding on every call, the
\* run without watsonx has the lower or equal overall_confidence.
C10_MonotoneDegradation ==
  \A a, b \in Runs :
    (/\ pc[a] = "done" /\ normalized[a] # <<>>
     /\ pc[b] = "done" /\ normalized[b] # <<>>
     /\ ~inp[a].watsonx
     /\ inp[b].watsonx
     /\ \E i \in 1..Len(log[b]) : log[b][i].by = "watsonx"
     /\ \A i \in 1..Len(log[b]) : log[b][i].by = "watsonx" => log[b][i].ok
     /\ ret[a][1].failure_drivers = ret[b][1].failure_drivers
     /\ ret[a][1].survivor_strategies = ret[b][1].survivor_strategies
     /\ Len(ret[a][1].disagreements) = Len(ret[b][1].disagreements)
     /\ (groq_error[a] = <<>>) = (groq_error[b] = <<>>)
     /\ (local_error[a] = <<>>) = (local_error[b] = <<>>))
    => ret[a][1].overall_confidence <= ret[b][1].overall_confidence

\* C10 witness: such a pair of runs, with a driver and a disagreement in
\* both outputs, has completed.
C10_Witness ==
  /\ pc[1] = "done" /\ normalized[1] # <<>>
  /\ pc[2] = "done" /\ normalized[2] # <<>>
  /\ ~inp[1].watsonx
  /\ inp[2].watsonx
  /\ \E i \in 1..Len(log[2]) : log[2][i].by = "watsonx"
  /\ \A i \in 1..Len(log[2]) : log[2][i].by = "watsonx" => log[2][i].ok
  /\ ret[1][1].failure_drivers = ret[2][1].failure_drivers
  /\ ret[1][1].failure_drivers # <<>>
  /\ Len(ret[1][1].disagreements) = Len(ret[2][1].disagreements)
  /\ Len(ret[1][1].disagreements) = 1
  /\ groq_error[1] = <<>> /\ groq_error[2] = <<>>
  /\ local_error[1] = <<>> /\ local_error[2] = <<>>
  /\ ret[1][1].overall_confidence <= ret[2][1].overall_confidence

\* C18: the snippets of _build_council_evidence_bundle carry the ids 1..n in
\* encounter order (channel order, then position in the channel), one per
\* text that is not blank after trimming; no snippet has a blank text; and a
\* snippet whose position lies beyond its channel's source list has the
\* empty source.
C18_BundleIds ==
  bundle_out # <<>> =>
    LET ch == ChannelsOf(bundle_in[1])
        out == bundle_out[1]
        P == {p \in (1..Len(ch)) \X (1..(MaxTexts + 1)) :
                p[2] <= Len(ch[p[1]].texts) /\ ch[p[1]].texts[p[2]] \notin {"", " "}}
        Before(q, p) == q[1] < p[1] \/ (q[1] = p[1] /\ q[2] < p[2])
        Rank(p) == Cardinality({q \in P : Before(q, p)}) + 1
    IN /\ Len(out) = Cardinality(P)
       /\ \A k \in 1..Len(out) : out[k].id = k /\ out[k].text \notin {"", " "}
       /\ \A p \in P :
            /\ out[Rank(p)].label = ch[p[1]].label
            /\ p[2] > Len(ch[p[1]].sources) => out[Rank(p)].source = ""

\* C18 witness: a blank answer and a whitespace-only macro note are skipped,
\* and the second macro note, beyond the one macro source, gets id 1 and an
\* empty source; the qualitative snippet follows with id 2.
C18_Witness ==
  /\ bundle_out # <<>>
  /\ bundle_in[1].answer = ""
  /\ bundle_in[1].fc_snippets = <<>>
  /\ bundle_in[1].macro_notes = <<" ", "text">>
  /\ bundle_in[1].macro_sources = <<"url">>
  /\ bundle_in[1].qual_snippets = <<"text">>
  /\ Len(bundle_out[1]) = 2
  /\ bundle_out[1][1] = [id |-> 1, label |-> "macro", text |-> "text", source |-> ""]
  /\ bundle_out[1][2].id = 2
  /\ bundle_out[1][2].label = "qualitative"

\* C19 (as stated): _local_sanity_check emits the conflict flag exactly when
\* the local before/after ordering disagrees with the sign of the reported
\* improvement (risk falls while the improvement is not positive, or risk
\* rises while the improvement is positive), emits the aligns flag exactly
\* when it emits no other flag, and never returns an empty flag list.
C19_SanityFlags ==
  sanity_out # <<>> =>
    LET i == sanity_in[1]
        flags == {sanity_out[1][k] : k \in 1..Len(sanity_out[1])}
        improvement == IF i.improvement.t = "num" THEN i.improvement.v ELSE 0
        disagrees == \/ i.after < i.before /\ improvement <= 0
                     \/ i.after > i.before /\ improvement > 0
    IN /\ ("conflicts" \in flags) = disagrees
       /\ ("aligns" \in flags) = (flags \ {"aligns"} = {})
       /\ flags # {}

\* C20 (as stated): _invoke_with_provider_failover never raises; it invokes
\* the providers in chain order, each at most once; it returns the first
\* accepted result, named after the provider that gave it; every provider
\* tried before that has left one entry in the error list; and when no
\* provider is accepted it returns no result, one error per provider and the
\* name of the first provider of the chain.
C20_ProviderFailover ==
  /\ fo.status # "raised"
  /\ \A k \in 1..Len(fo.calls) :
       /\ fo.calls[k] \in 1..Len(fo.chain)
       /\ k > 1 => fo.calls[k - 1] < fo.calls[k]
  /\ (fo.status = "returned" /\ fo.result # <<>>) =>
       /\ fo.calls # <<>>
       /\ fo.result[1] = fo.chain[fo.calls[Len(fo.calls)]]
       /\ fo.provider = fo.result[1]
       /\ Len(fo.errors) = fo.calls[Len(fo.calls)] - 1
  /\ (fo.status = "returned" /\ fo.result = <<>>) =>
       /\ Len(fo.errors) = Len(fo.chain)
       /\ fo.chain # <<>> => fo.provider = fo.chain[1]

\* C17 (as stated): normalize_council_output never raises, whatever the
\* payload: a field of the wrong shape is defaulted, not an error.
C17_NormalizerNeverRaises == norm_pc # "raised"

\* C11 (as stated): Groq's 0.20 and watsonx's 0.20 are in overall_confidence
\* exactly when that provider was invoked in the run and none of its calls
\* failed: the returned confidence is the agreement score computed with
\* those two bonuses (the local bonus, coverage and disagreement penalty as
\* the code computes them).
C11_ProviderBonus ==
  \A r \in Runs :
    (pc[r] = "done" /\ normalized[r] # <<>>) =>
      LET f == final_raw[r][1]
          claims == f.failure_drivers \o f.survivor_strategies
          Earned(by) == /\ \E i \in 1..Len(log[r]) : log[r][i].by = by
                        /\ \A i \in 1..Len(log[r]) : log[r][i].by = by => log[r][i].ok
      IN ret[r][1].overall_confidence =
           AgreementConfidence(CitedCount(claims), Len(claims), Earned("groq"),
                               Earned("watsonx"), local_error[r] = <<>>,
                               Len(f.disagreements))

\* C12: a run whose draft, critique, sanity check and synthesis all succeed
\* returns an overall_confidence above 0.5 and no error in any of the three
\* model_breakdown entries, whatever its citations and disagreements.
C12_FullSuccess ==
  \A r \in Runs :
    (/\ pc[r] = "done" /\ normalized[r] # <<>>
     /\ \A op \in {"draft", "critique", "sanity", "synthesis"} :
          \E i \in 1..Len(log[r]) : log[r][i].op = op
     /\ \A i \in 1..Len(log[r]) : log[r][i].ok)
    => /\ ret[r][1].overall_confidence > 500
       /\ \A by \in {"groq", "watsonx", "local"} :
            ret[r][1].model_breakdown[by].errors = <<>>

\* C12 witness: such a run whose synthesis cites nothing valid and reports
\* more than five disagreements has returned 0.55.
C12_Witness ==
  /\ pc[1] = "done" /\ normalized[1] # <<>>
  /\ \A op \in {"draft", "critique", "sanity", "synthesis"} :
       \E i \in 1..Len(log[1]) : log[1][i].op = op
  /\ \A i \in 1..Len(log[1]) : log[1][i].ok
  /\ Len(final_raw[1][1].disagreements) > 5
  /\ final_raw[1][1].failure_drivers # <<>>
  /\ \A i \in 1..Len(final_raw[1][1].failure_drivers) :
       final_raw[1][1].failure_drivers[i].ids = <<>>
  /\ ret[1][1].overall_confidence = 550

\* C13: every completed call returns an overall_confidence in [0.05, 0.95],
\* whether its output comes from the synthesis, from the failover synthesis
\* or from the consensus fallback.
C13_ConfidenceRange ==
  \A r \in Runs : pc[r] = "done" => ret[r][1].overall_confidence \in 50..950

\* C13 witness: a run that failed over to Groq's synthesis, with a failed
\* draft and sanity check, no valid citation and five or more disagreements,
\* has returned the lower limit 0.05.
C13_Witness ==
  /\ pc[1] = "done"
  /\ Len(SelectIdx(log[1], [i \in 1..Len(log[1]) |-> log[1][i].op = "synthesis"], 1)) = 2
  /\ final_raw[1][1].executive_summary # "consensus fallback"
  /\ ret[1][1].overall_confidence = 50

\* C14 (as stated): model_breakdown has exactly the entries groq, watsonx
\* and local, and the entry of a provider that was not configured or that
\* had a call fail has an empty raw payload and a non-empty errors string.
C14_BreakdownEntries ==
  \A r \in Runs :
    (pc[r] = "done" /\ normalized[r] # <<>>) =>
      LET b == ret[r][1].model_breakdown
          Configured(by) == IF by = "groq" THEN inp[r].groq
                            ELSE IF by = "watsonx" THEN inp[r].watsonx ELSE inp[r].local
          Failed(by) == \E i \in 1..Len(log[r]) : log[r][i].by = by /\ ~log[r][i].ok
      IN /\ DOMAIN b = {"groq", "watsonx", "local"}
         /\ \A by \in DOMAIN b :
              (~Configured(by) \/ Failed(by)) =>
                (b[by].raw = "empty" /\ b[by].errors # <<>>)

\* C15: in a run that is not a cache hit every stage is entered from the
\* stage before it (draft, submission of the two tasks, their results,
\* synthesis, failover, consensus fallback, citation repair, scoring,
\* normalization, cache write); the draft call is made in the draft stage,
\* the critique and the sanity check run only after the draft stage, a
\* synthesis call is made only when neither task is still running, and the
\* cache is written only by a run that has normalized its output.
C15_StageOrdering ==
  [][/\ \A r \in Runs :
          LET Rank == [st \in {"idle", "lock_check", "check", "validate", "draft", "submit",
                               "await_critique", "await_local", "synthesize", "failover",
                               "fallback", "repair", "score", "normalize", "lock_write",
                               "write"} |->
                         CASE st = "idle" -> 0 [] st = "lock_check" -> 1 [] st = "check" -> 2
                           [] st = "validate" -> 3 [] st = "draft" -> 4 [] st = "submit" -> 5
                           [] st = "await_critique" -> 6 [] st = "await_local" -> 7
                           [] st = "synthesize" -> 8 [] st = "failover" -> 9
                           [] st = "fallback" -> 10 [] st = "repair" -> 11
                           [] st = "score" -> 12 [] st = "normalize" -> 13
                           [] st = "lock_write" -> 14 [] OTHER -> 15]
              appended == Len(log'[r]) > Len(log[r])
              ev == log'[r][Len(log'[r])]
          IN /\ (pc'[r] # pc[r] /\ pc'[r] \notin {"done", "raised", "pool_unwind", "idle"})
                  => Rank[pc'[r]] = Rank[pc[r]] + 1
             /\ (appended /\ ev.op = "draft") => pc[r] = "draft"
             /\ (appended /\ ev.op \in {"critique", "sanity"})
                  => pc[r] \in {"await_critique", "await_local", "pool_unwind"}
             /\ (appended /\ ev.op = "synthesis")
                  => /\ pc[r] \in {"synthesize", "failover"}
                     /\ crit_task[r].state # "running"
                     /\ local_task[r].state = "finished"
     /\ cache' # cache => \E r \in Runs : pc[r] = "write" /\ normalized[r] # <<>>
    ]_vars

\* C15 witness: a run has made its four provider calls, the draft first and
\* the synthesis last, and has written and returned its output.
C15_Witness ==
  /\ pc[1] = "done" /\ normalized[1] # <<>>
  /\ Len(log[1]) = 4
  /\ log[1][1].op = "draft"
  /\ {log[1][2].op, log[1][3].op} = {"critique", "sanity"}
  /\ log[1][4].op = "synthesis"
  /\ inp[1].key \in DOMAIN cache

\* C16 (as stated): a failure of the critique or sanity-check task, or the
\* expiry of its 60 second wait, never leaves the pool stage as an
\* exception: the run goes on to synthesis.
C16_StageFailuresCaptured == \A r \in Runs : pc[r] # "pool_unwind"

\* C21 (as stated): when the returned output was built by the consensus
\* fallback, every returned failure driver and survivor strategy has a
\* confidence of at most 0.45.
C21_FallbackConfidence ==
  \A r \in Runs :
    (/\ pc[r] = "done" /\ normalized[r] # <<>>
     /\ final_raw[r][1].executive_summary = "consensus fallback")
    => /\ \A i \in 1..Len(ret[r][1].failure_drivers) :
            ret[r][1].failure_drivers[i].confidence <= 450
       /\ \A i \in 1..Len(ret[r][1].survivor_strategies) :
            ret[r][1].survivor_strategies[i].confidence <= 450

\* C22: the draft is never null once the draft stage is over and does not
\* change afterwards, so the critique call and every synthesis call receive
\* it; the draft stage always goes on to the submission of the tasks, with
\* the provider's draft when its call returned one, and otherwise (client
\* absent or call failed) with the fallback draft: one string per metric gap
\* for at most three gaps, the first three recommendations at most, and a
\* placeholder where there is none.
C22_DraftFallback ==
  [][\A r \in Runs :
       LET i == inp[r]
           drafted == Len(log'[r]) > Len(log[r]) /\ log'[r][Len(log'[r])].ok
           expected ==
             [source |-> "fallback",
              failure_drivers |->
                IF i.gaps = 0 THEN <<StrRow("Evidence unavailable")>>
                ELSE IF i.gaps <= 3 THEN [k \in 1..i.gaps |-> StrRow("claim")]
                ELSE <<StrRow("claim"), StrRow("claim"), StrRow("claim")>>,
              prevention_measures |->
                IF i.recs = <<>> THEN <<StrRow("Evidence unavailable")>>
                ELSE IF Len(i.recs) <= 3 THEN i.recs
                ELSE <<i.recs[1], i.recs[2], i.recs[3]>>]
       IN /\ (pc[r] = "draft" /\ pc'[r] # "draft")
               => /\ pc'[r] = "submit" /\ exc'[r] = exc[r]
                  /\ IF drafted THEN groq_raw'[r].source = "groq"
                     ELSE groq_raw'[r] = expected
          /\ pc[r] \in {"submit", "await_critique", "await_local", "synthesize", "failover"}
               => (groq_raw[r] # NoDraft /\ groq_raw'[r] = groq_raw[r])
    ]_vars

\* C22 witness: the draft call failed with four metric gaps and four
\* recommendations supplied, and the run has gone on to make a synthesis call
\* with a fallback draft that holds three of each.
C22_Witness ==
  /\ inp[1].gaps > 3 /\ Len(inp[1].recs) > 3
  /\ \E k \in 1..Len(log[1]) : log[1][k].op = "draft" /\ ~log[1][k].ok
  /\ \E k \in 1..Len(log[1]) : log[1][k].op = "synthesis"
  /\ groq_raw[1].source = "fallback"
  /\ Len(groq_raw[1].failure_drivers) = 3
  /\ groq_raw[1].prevention_measures = <<inp[1].recs[1], inp[1].recs[2], inp[1].recs[3]>>

\* C23: once the first synthesis stage of a run is over, no synthesis call
\* was made if neither client is configured; otherwise exactly one was made
\* in that stage, by the only configured client if there is only one, and
\* with both configured by watsonx when the preference is 'watsonx' and by
\* Groq for any other preference string. No synthesis call is made before
\* that stage.
C23_SynthesisSelection ==
  \A r \in Runs :
    LET i == inp[r]
        made == SelectIdx(log[r], [k \in 1..Len(log[r]) |-> log[r][k].op = "synthesis"], 1)
        expected ==
          CASE ~i.groq /\ ~i.watsonx -> "none"
            [] i.groq /\ ~i.watsonx -> "groq"
            [] ~i.groq /\ i.watsonx -> "watsonx"
            [] OTHER -> IF i.synthesis_provider = "watsonx" THEN "watsonx" ELSE "groq"
    IN /\ pc[r] \in {"draft", "submit", "await_critique", "await_local", "synthesize"}
            => made = <<>>
       /\ pc[r] \in {"failover", "fallback", "repair", "score", "normalize", "lock_write",
                     "write", "done"}
            => IF expected = "none" THEN made = <<>>
               ELSE /\ made # <<>> /\ made[1].by = expected
                    /\ pc[r] = "failover" => Len(made) = 1

\* C23 witness: with both clients configured and an unrecognized preference
\* a run has completed after one synthesis call, made to Groq.
C23_Witness ==
  /\ pc[1] = "done" /\ inp[1].groq /\ inp[1].watsonx
  /\ inp[1].synthesis_provider = "other"
  /\ \E k \in 1..Len(log[1]) : log[1][k].op = "synthesis" /\ log[1][k].by = "groq"
  /\ \A k \in 1..Len(log[1]) : log[1][k].op = "synthesis" => log[1][k].by = "groq"

\* C24 (as stated): a step in which a synthesis call fails leaves the errors
\* of the providers that did not execute that call unchanged.
C24_ErrorAttribution ==
  [][\A r \in Runs :
       LET ev == log'[r][Len(log'[r])]
       IN (Len(log'[r]) > Len(log[r]) /\ ev.op = "synthesis" /\ ~ev.ok)
            => /\ local_error'[r] = local_error[r]
               /\ ev.by = "groq" => watsonx_error'[r] = watsonx_error[r]
               /\ ev.by = "watsonx" => groq_error'[r] = groq_error[r]
    ]_vars

\* C25: a council operation of either adapter that has returned has
\* returned a map, and one that has not returned a map has raised with an
\* exception; none ends with None or another value, also when the API key
\* is missing, every request fails or every response is unparseable.
C25_NoSilentNull ==
  /\ ad.status = "returned" => ad.result = "map"
  /\ ad.status = "raised" => (ad.result = "none" /\ ad.exc # "")
  /\ (ad.status \in {"returned", "raised"} /\ ~ad.ready) => ad.status = "raised"
  /\ (ad.status \in {"returned", "raised"}
        /\ \A k \in 1..Len(ad.requests) : ad.requests[k].outcome # "object")
       => ad.status = "raised"

\* C25 witness: a Groq council operation has ended after a failed request to
\* each of its models, by raising.
C25_Witness ==
  /\ ad.client = "groq" /\ ad.status = "raised"
  /\ Len(ad.requests) = 2
  /\ \A k \in 1..Len(ad.requests) : ad.requests[k].outcome = "error"

\* C26 (as stated): in one _chat_json call at most one request carries the
\* repair instruction per model for Groq and per call for watsonx, Groq
\* makes at most 2 requests per model and watsonx at most 2 rounds over
\* its candidate endpoints.
C26_RepairOnce ==
  LET R == ad.requests
      n == Len(R)
  IN /\ ad.client = "groq" =>
          \A m \in 1..n :
            /\ Cardinality({k \in 1..n : R[k].target = R[m].target}) <= 2
            /\ Cardinality({k \in 1..n : R[k].target = R[m].target /\ R[k].repair}) <= 1
     /\ ad.client = "watsonx" =>
          /\ Cardinality({k \in 1..n : R[k].repair}) <= 1
          /\ n <= 2 * ad.endpoints

\* C26 (amended): in one _chat_json call Groq makes at most 2 requests per
\* model and watsonx at most 2 rounds of at most one request per candidate
\* endpoint; a request carries the repair instruction only after an
\* unparseable response to a request without it (Groq: the request just
\* before, to the same model, at most once per model; watsonx: in the
\* first round, so only the requests of the second round carry it, at most
\* one per candidate endpoint and so up to three in a call); an unparseable
\* response to a re-issued request ends the attempts on that model (Groq)
\* or the call, which then raises (watsonx); and every call that has
\* started ends.
C26_RepairRetry ==
  /\ [](LET R == ad.requests
            n == Len(R)
            Unparseable(k) == R[k].outcome \in {"invalid", "non_json", "json_not_object"}
        IN /\ ad.client = "groq" =>
                /\ \A m \in 1..n :
                     /\ Cardinality({k \in 1..n : R[k].target = R[m].target}) <= 2
                     /\ Cardinality({k \in 1..n : R[k].target = R[m].target /\ R[k].repair}) <= 1
                     /\ R[m].repair =>
                          /\ m > 1 /\ R[m - 1].target = R[m].target
                          /\ ~R[m - 1].repair /\ Unparseable(m - 1)
                     /\ (R[m].repair /\ m < n) => R[m + 1].target # R[m].target
                /\ n <= 2 * 2
           /\ ad.client = "watsonx" =>
                /\ \A m \in 1..n :
                     /\ R[m].attempt \in {0, 1}
                     /\ Cardinality({k \in 1..n : R[k].attempt = R[m].attempt
                                                    /\ R[k].target = R[m].target}) = 1
                     /\ R[m].target \in 1..ad.endpoints
                     /\ R[m].repair =>
                          /\ R[m].attempt = 1
                          /\ \E j \in 1..(m - 1) :
                               R[j].attempt = 0 /\ ~R[j].repair /\ Unparseable(j)
                     /\ (R[m].attempt = 1 /\ Unparseable(m)) =>
                          (m = n /\ ad.status # "returned")
                /\ Cardinality({k \in 1..n : R[k].repair}) <= ad.endpoints
                /\ n <= 2 * ad.endpoints)
  /\ (ad.status = "running") ~> (ad.status \in {"returned", "raised"})

\* C26 witness: a watsonx call over three candidate endpoints has raised
\* after an unparseable response in the first round and a second round of
\* three requests, each carrying the repair instruction: two HTTP errors,
\* then an unparseable response again.
C26_Witness ==
  /\ ad.client = "watsonx" /\ ad.status = "raised" /\ ad.exc = "ValueError"
  /\ ad.endpoints = 3
  /\ Len(ad.requests) = 4
  /\ ad.requests[1] = [target |-> 1, attempt |-> 0, repair |-> FALSE, outcome |-> "non_json"]
  /\ \A k \in 2..4 :
       /\ ad.requests[k].attempt = 1 /\ ad.requests[k].repair
       /\ ad.requests[k].target = k - 1
  /\ ad.requests[2].outcome = "http_error"
  /\ ad.requests[3].outcome = "http_error"
  /\ ad.requests[4].outcome = "non_json"

\* C27: when the normalizer returns for a payload, applying it to its own
\* result returns too, and returns the same map: every field of it, the
\* counterfactual scores, the views, the expected effects and the
\* latencies included.
C27_NormalizerIdempotent ==
  /\ norm_pc # "raised_again"
  /\ norm_pc = "done_again" => norm_out[2] = norm_out[1]

\* C27 witness: the normalizer has been applied twice to a payload it had to
\* change in every field: seven drivers cut to five, ids cleaned, a NaN
\* confidence clamped to 1, texts stripped or replaced by their
\* placeholder, overall_confidence 0.4507 rounded to 0.451, a NaN score
\* kept and a latency of 3.7 cut to 3.
C27_Witness ==
  /\ norm_pc = "done_again"
  /\ norm_in[1] = RichPayload
  /\ norm_out[2].executive_summary = "claim"
  /\ norm_out[2].failure_drivers =
       Repeat([text |-> "claim", evidence_ids |-> <<2>>, confidence |-> 1000], 5)
  /\ norm_out[2].survivor_strategies =
       <<[text |-> "None", evidence_ids |-> <<>>, confidence |-> 0]>>
  /\ norm_out[2].disagreements =
       <<[topic |-> "Open issue", groq_view |-> "claim", watsonx_view |-> "",
          local_view |-> ""]>>
  /\ norm_out[2].final_recommendations =
       <<[action |-> "claim", expected_effect |-> "Evidence unavailable",
          confidence |-> 1000]>>
  /\ norm_out[2].overall_confidence = 451
  /\ norm_out[2].counterfactual_impact =
       [before_score |-> NaN, after_score |-> 620, improvement_pct |-> 0]
  /\ norm_out[2].model_breakdown.local =
       [raw |-> "draft", latency_ms |-> 3, errors |-> <<"msg">>]

\* C28: the cache lock is free or held by a run that is inside the
\* existence check or the final insert, and the holder can always take the
\* step that releases it; a run with a provider operation in flight (draft,
\* critique or sanity task, synthesis) does not hold it, so while one run is
\* in such a stage the lock is either free for another caller's cache check
\* or held by that caller inside its own check or insert.
C28_LockScope ==
  LET InFlight(r) ==
        \/ pc[r] \in {"draft", "submit", "await_critique", "await_local", "pool_unwind",
                      "synthesize", "failover"}
        \/ crit_task[r].state = "running"
        \/ local_task[r].state = "running"
  IN /\ lock \in {0} \cup Runs
     /\ \A r \in Runs :
          /\ lock = r => pc[r] \in {"check", "write"}
          /\ lock = r => ENABLED (CacheLookup(r) \/ CacheWrite(r))
          /\ InFlight(r) => lock # r
          /\ \A q \in Runs \ {r} :
               (InFlight(r) /\ pc[q] = "lock_check") => (lock = 0 /\ ENABLED AcquireForCheck(q))

\* C28 witness: while one run waits for its critique task, the other caller
\* has gone through its cache check and has been served from the cache.
C28_Witness ==
  /\ pc[1] = "await_critique" /\ crit_task[1].state = "running"
  /\ pc[2] = "done" /\ normalized[2] = <<>> /\ ret[2] # <<>>
  /\ lock = 0


\* C29 (as stated): a run that completes stores its output under its key,
\* a run that raises leaves the cache as it was, and once a call has
\* returned an output built by the consensus fallback, every call made
\* later with the same key returns that same output.
C29_DegradedOutputCached ==
  [][\A r \in Runs :
       /\ (pc[r] = "write" /\ pc'[r] = "done") =>
            /\ inp[r].key \in DOMAIN cache'
            /\ cache'[inp[r].key] = normalized[r][1]
            /\ ret'[r] = normalized[r]
       /\ (pc[r] # "raised" /\ pc'[r] = "raised") => cache' = cache
       /\ (pc[r] # "done" /\ pc'[r] = "done") =>
            \A x \in seen[r] :
              x.executive_summary = "consensus fallback" => ret'[r][1] = x]_vars


\* C30 (as stated): get_iam_token answers from the cache only with a token
\* that was issued for the API key of the current call and has more than
\* 60 seconds left; in every other case it requests a new token for the
\* given key.
C30_TokenKeyedByApiKey ==
  \A t \in IamThreads :
    iam.th[t].pc = "returned" =>
      /\ iam.th[t].out[1].key = iam.th[t].key
      /\ ~iam.th[t].requested => iam.th[t].out[2] - iam.th[t].at > IamMargin

====
